---- MODULE Spec2Model ----
(***************************************************************************)
(* beetune: the LaTeX structural validator and the two-pass compiler       *)
(* driver (beetune/renderers/latex_converter.py), with the lazily created  *)
(* converter of the HTTP server (beetune/server.py).                       *)
(*                                                                         *)
(* A LaTeX source is a sequence of lexical tokens; the text handed to the  *)
(* program is the concatenation of the tokens, in order, with nothing      *)
(* between them.  Every token except "%", "x", "[", "]" and the newline    *)
(* starts with a backslash, so a marker the validator searches for occurs  *)
(* in the text exactly when it occurs as a token.                          *)
(***************************************************************************)
EXTENDS Integers, Sequences, FiniteSets, TLC

\* ------------------------------------------------------------------ bounds
\* longest source (in tokens) handed to validate_latex_structure alone
MaxLen == 4
\* longest source (in tokens) handed to compile_latex
MaxSrcLen == 3
\* number of compile_latex calls that may be in progress together
NumCalls == 2
\* number of directory names the temporary-file area can hand out
NumDirs == 2
\* the longest resume text, in lines
MaxLines == 4
\* the most lines of contact details at the head of a resume text
MaxHead == 2
\* the number of Config calls in one run
MaxOps == 3
\* the longest uploaded filename, in characters
MaxName == 5

\* ------------------------------------------------------------------ tokens
DocumentClass == "\\documentclass"
BeginDocument == "\\begin{document}"
EndDocument   == "\\end{document}"
BeginItemize  == "\\begin{itemize}"
EndItemize    == "\\end{itemize}"
Percent       == "%"
PlainText     == "x"
Newline       == "\n"

\* the tokens the validator is exercised on
Tokens ==
    { DocumentClass, BeginDocument, EndDocument, BeginItemize, EndItemize,
      Percent, PlainText, "\\geometry{", "\\usepackage{geometry}" }

\* the tokens of the sources handed to the compiler driver
SrcTokens == { DocumentClass, BeginDocument, EndDocument, PlainText }

\* all sequences over S of length 0..n
SeqsUpTo(S, n) == UNION { [1..k -> S] : k \in 0..n }

\* tokens whose text holds no backslash
NoBackslash == { Percent, PlainText, "[", "]", Newline }

\* \begin{X} / \end{X} tokens by environment name X
Environments == { "document", "itemize" }
BeginOf(env) == IF env = "document" THEN BeginDocument ELSE BeginItemize
EndOf(env)   == IF env = "document" THEN EndDocument ELSE EndItemize

\* ------------------------------------------------------- sequence helpers
Has(content, tok) == \E i \in 1..Len(content) : content[i] = tok

HasAny(content, toks) == \E i \in 1..Len(content) : content[i] \in toks

\* str.find at token granularity: index of the first occurrence, -1 if none
Find(content, tok) ==
    IF Has(content, tok)
    THEN CHOOSE i \in 1..Len(content) :
            content[i] = tok /\ \A j \in 1..(i - 1) : content[j] # tok
    ELSE -1

RECURSIVE Flatten(_)
Flatten(seqs) ==
    IF seqs = <<>> THEN <<>> ELSE Head(seqs) \o Flatten(Tail(seqs))

\* sep.join(items), as the sequence of the pieces of the joined string
RECURSIVE Join(_, _)
Join(sep, items) ==
    IF items = <<>> THEN <<>>
    ELSE IF Len(items) = 1 THEN <<items[1]>>
    ELSE <<items[1], sep>> \o Join(sep, Tail(items))

\* the subsequence of items whose index satisfies keep
RECURSIVE Select(_, _)
Select(items, keep) ==
    IF items = <<>> THEN <<>>
    ELSE (IF keep[1] THEN <<items[1]>> ELSE <<>>)
         \o Select(Tail(items), Tail(keep))

\* ---------------------------------------------- validate_latex_structure
\* (token searched for, f"Missing {description} ({pattern})")
required_elements ==
    << [tok |-> DocumentClass,
        missing |-> "Missing Document class declaration (\\\\documentclass)"],
       [tok |-> BeginDocument,
        missing |-> "Missing Document begin (\\\\begin{document})"],
       [tok |-> EndDocument,
        missing |-> "Missing Document end (\\\\end{document})"] >>

\* r"\\begin{document}.*\\begin{document}" with DOTALL: tok occurs twice
Twice(content, tok) ==
    \E i, j \in 1..Len(content) : i < j /\ content[i] = tok /\ content[j] = tok

\* r"[^\\]%.*\\" with DOTALL: a "%" that has a character before it (never a
\* backslash: no token ends in one) and a backslash somewhere after it
UnescapedPercent(content) ==
    \E i, j \in 1..Len(content) :
        /\ 1 < i /\ i < j
        /\ content[i] = Percent
        /\ content[j] \notin NoBackslash

\* r"\\begin{(\w+)}(?!.*\\end{\1})" with DOTALL: some \begin{X} that no
\* \end{X} follows
UnmatchedBegin(content) ==
    \E env \in Environments : \E i \in 1..Len(content) :
        /\ content[i] = BeginOf(env)
        /\ \A j \in (i + 1)..Len(content) : content[j] # EndOf(env)

potential_issues(content) ==
    << [hit |-> Twice(content, BeginDocument),
        warning |-> "Multiple document beginnings detected"],
       [hit |-> Twice(content, EndDocument),
        warning |-> "Multiple document endings detected"],
       [hit |-> UnescapedPercent(content),
        warning |-> "Potential unescaped percent sign in content"],
       [hit |-> UnmatchedBegin(content),
        warning |-> "Unmatched begin/end environment pairs"] >>

\* doc_class_pos > begin_doc_pos and both found
ClassAfterBegin(content) ==
    /\ Find(content, DocumentClass) > Find(content, BeginDocument)
    /\ Find(content, DocumentClass) # -1
    /\ Find(content, BeginDocument) # -1

\* r"\\begin{itemize}.*\[.*\]" without DOTALL: all on one line
ItemizeOptions(content) ==
    \E i, j, k \in 1..Len(content) :
        /\ i < j /\ j < k
        /\ content[i] = BeginItemize /\ content[j] = "[" /\ content[k] = "]"
        /\ \A m \in i..k : content[m] # Newline

common_commands(content) ==
    << [package |-> "\\usepackage{geometry}",
        used |-> Has(content, "\\geometry{"),
        suggestion |-> "geometry package needed for \\geometry command"],
       [package |-> "\\usepackage{xcolor}",
        used |-> HasAny(content, {"\\color{", "\\definecolor"}),
        suggestion |-> "xcolor package needed for color commands"],
       [package |-> "\\usepackage{hyperref}",
        used |-> HasAny(content, {"\\href{", "\\url{"}),
        suggestion |-> "hyperref package needed for links"],
       [package |-> "\\usepackage{enumitem}",
        used |-> ItemizeOptions(content),
        suggestion |-> "enumitem package recommended for itemize options"] >>

\* lines 88-91 for a loop that stops at the first absent element
MissingElements_FirstOnly(content) ==
    LET all == Select([i \in 1..3 |-> required_elements[i].missing],
                      [i \in 1..3 |-> ~Has(content, required_elements[i].tok)])
    IN  IF all = <<>> THEN <<>> ELSE <<all[1]>>

\* lines 88-91
MissingElements(content) ==
    Select([i \in 1..3 |-> required_elements[i].missing],
           [i \in 1..3 |-> ~Has(content, required_elements[i].tok)])

Warnings(content) ==
    LET issues == potential_issues(content)
        cmds   == common_commands(content)
    IN  Select([i \in 1..4 |-> issues[i].warning], [i \in 1..4 |-> issues[i].hit])
        \o (IF ClassAfterBegin(content)
            THEN <<"Document class should appear before \\begin{document}">>
            ELSE <<>>)
        \o Select([i \in 1..4 |-> cmds[i].suggestion],
                  [i \in 1..4 |-> cmds[i].used /\ ~Has(content, cmds[i].package)])

\* a validator whose verdict also counts the warnings
validate_latex_structure_strict(content) ==
    [is_valid |-> Len(MissingElements(content)) = 0 /\ Len(Warnings(content)) = 0,
     missing_elements |-> MissingElements(content),
     warnings |-> Warnings(content)]

validate_latex_structure(content) ==
    LET missing_elements == MissingElements(content)
        warnings == Warnings(content)
        is_valid == Len(missing_elements) = 0
    IN  [is_valid |-> is_valid,
         missing_elements |-> missing_elements,
         warnings |-> warnings]

\* ------------------------------------------------------ text and base64
\* the UTF-8 bytes of one token (all tokens are ASCII)
TokenBytes(t) ==
    IF t = "\\documentclass" THEN <<92, 100, 111, 99, 117, 109, 101, 110, 116, 99, 108, 97, 115, 115>> ELSE
    IF t = "\\begin{document}" THEN <<92, 98, 101, 103, 105, 110, 123, 100, 111, 99, 117, 109, 101, 110, 116, 125>> ELSE
    IF t = "\\end{document}" THEN <<92, 101, 110, 100, 123, 100, 111, 99, 117, 109, 101, 110, 116, 125>> ELSE
    IF t = "\\begin{itemize}" THEN <<92, 98, 101, 103, 105, 110, 123, 105, 116, 101, 109, 105, 122, 101, 125>> ELSE
    IF t = "\\end{itemize}" THEN <<92, 101, 110, 100, 123, 105, 116, 101, 109, 105, 122, 101, 125>> ELSE
    IF t = "%" THEN <<37>> ELSE
    IF t = "x" THEN <<120>> ELSE
    IF t = "\\geometry{" THEN <<92, 103, 101, 111, 109, 101, 116, 114, 121, 123>> ELSE
    IF t = "\\usepackage{geometry}" THEN <<92, 117, 115, 101, 112, 97, 99, 107, 97, 103, 101, 123, 103, 101, 111, 109, 101, 116, 114, 121, 125>> ELSE
    <<63>>

\* f.write(content) with encoding="utf-8": the bytes of the file
Utf8(content) == Flatten([i \in 1..Len(content) |-> TokenBytes(content[i])])

B64Alphabet ==
    <<"A", "B", "C", "D", "E", "F", "G", "H", "I", "J", "K", "L", "M",
      "N", "O", "P", "Q", "R", "S", "T", "U", "V", "W", "X", "Y", "Z",
      "a", "b", "c", "d", "e", "f", "g", "h", "i", "j", "k", "l", "m",
      "n", "o", "p", "q", "r", "s", "t", "u", "v", "w", "x", "y", "z",
      "0", "1", "2", "3", "4", "5", "6", "7", "8", "9", "+", "/">>

B64Char(sextet) == B64Alphabet[sextet + 1]

\* base64.b64encode(bytes).decode("utf-8"), as the sequence of its
\* characters: four for each group of three bytes, the last group padded
b64encode(bytes) ==
    LET n == Len(bytes)
        Byte(i) == IF i <= n THEN bytes[i] ELSE 0
        Char(g, k) ==
            LET b1 == Byte(3 * g + 1)
                b2 == Byte(3 * g + 2)
                b3 == Byte(3 * g + 3)
            IN  CASE k = 1 -> B64Char(b1 \div 4)
                  [] k = 2 -> B64Char((b1 % 4) * 16 + b2 \div 16)
                  [] k = 3 -> IF 3 * g + 2 > n THEN "="
                              ELSE B64Char((b2 % 16) * 4 + b3 \div 64)
                  [] k = 4 -> IF 3 * g + 3 > n THEN "=" ELSE B64Char(b3 % 64)
    IN  [j \in 1..(4 * ((n + 2) \div 3)) |-> Char((j - 1) \div 4, ((j - 1) % 4) + 1)]

\* --------------------------------------------------------- optional values
\* None, an unbound local, a file that does not exist
None == <<>>
Some(v) == <<v>>
IsSome(o) == o # <<>>
Get(o) == o[1]

\* what a call does: it returns a value or raises an exception
Return(v) == [raised |-> "none", value |-> v]
Raise(e) == [raised |-> e, value |-> <<>>]

\* ------------------------------------------------------------------ state
Calls == 1..NumCalls
DirNames == 1..NumDirs

VARIABLES
    latex_converter,    \* server.py: the lazily created converter, or "None"
    fs,                 \* the temporary-file area: directory name -> directory
    scenario,           \* "single" or "concurrent": what the environment may do
    pc,                 \* where each call stands
    content,            \* compile_latex argument
    validate_structure, \* compile_latex argument
    validation,         \* the validator's result, once it has been called
    temp_dir,           \* the directory the call created (0: none)
    tex_base64,         \* local of compile_latex (None: not bound)
    log_content,        \* local of compile_latex (None: not bound)
    pass_num,           \* loop variable of compile_latex
    compiler,           \* the child subprocess.run waits for: the files it has
                        \* written so far (None: no child is running)
    process,            \* the completed process of the latest pass
    result,             \* the value compile_latex returns (None: none yet)
    passes,             \* history: what each compiler invocation of the call did
    raised_at,          \* history: the step that raised an exception, or "none"
    simple,             \* what compile_latex_simple did for the call (None: nothing yet)
    input,              \* the argument of the formatter function under study
    output,             \* its return value (None: not yet called)
    config_data,        \* config.py: Config._config_data
    config_file,        \* config.py: what config.json holds (None: no file)
    last_call           \* history: the latest Config method called, with its argument

vars == << compiler, latex_converter, fs, scenario, pc, content, validate_structure,
           validation, temp_dir, tex_base64, log_content, pass_num, process,
           result, passes, raised_at, simple, input, output, config_data,
           config_file, last_call >>

\* the variables of compile_latex and the validator
compile_vars == << compiler, latex_converter, fs, scenario, pc, content, validate_structure,
                   validation, temp_dir, tex_base64, log_content, pass_num,
                   process, result, passes, raised_at >>

\* the variables outside compile_latex and the validator
rest == << simple, input, output, config_data, config_file, last_call >>

\* a directory: whether it exists, and its three files (None: no such file)
NoDir == [exists |-> FALSE, tex |-> None, log |-> None, pdf |-> None]
EmptyDir == [exists |-> TRUE, tex |-> None, log |-> None, pdf |-> None]

NoProcess == [returncode |-> 0, stderr |-> <<>>]

\* one call made on its own, through compile_latex ("single") or through
\* compile_latex_simple ("simple")
Solo == scenario \in { "single", "simple" }

\* what the compiler writes on standard error; a caller of
\* compile_latex_simple may also meet a compiler whose complaint holds the
\* words the validator's message starts with
Stderrs ==
    IF scenario = "simple"
    THEN { <<>>, <<"! Emergency stop.">>, <<"Invalid LaTeX structure">> }
    ELSE { <<>>, <<"! Emergency stop.">> }

\* -------------------------------------------------- the external compiler
\* pdflatex is outside the repository.  It runs as a child process while
\* subprocess.run waits (line 195), beside whatever other calls do.  One
\* invocation ends by exit (with a return code) or is cut off by the 60
\* second timeout, and it may or may not have (re)written document.log and
\* document.pdf by then.  What it writes is a function of the document.tex
\* it read: the log names the pass and the source and ends in a byte that
\* is not UTF-8, the PDF starts with "%PDF" and carries the source.
PassOutcomes ==
    [kind : {"exit"}, returncode : {0, 1}, stderr : Stderrs,
     log : BOOLEAN, pdf : BOOLEAN]
    \cup [kind : {"timeout"}, returncode : {0}, stderr : {<<>>},
          log : BOOLEAN, pdf : BOOLEAN]

\* line 195 with text=True: once the compiler has exited, subprocess.run
\* decodes what it printed as UTF-8 and raises UnicodeDecodeError on a byte
\* that is none; the compiler wrote what it wrote, and its return code and
\* standard error never reach compile_latex (the record keeps a zero)
Undecodable ==
    [kind : {"undecodable"}, returncode : {0}, stderr : {<<>>},
     log : BOOLEAN, pdf : BOOLEAN]

\* concurrent calls meet a compiler that says nothing on stderr and either
\* is cut off before it wrote anything, or writes its log and exits with 1,
\* or writes its log and the PDF and exits with 0
Outcomes ==
    IF Solo
    THEN PassOutcomes
    ELSE { o \in PassOutcomes :
             /\ o.stderr = <<>>
             /\ o.log = (o.kind = "exit")
             /\ o.pdf = (o.kind = "exit" /\ o.returncode = 0) }

\* file and process operations may raise OSError
Faulty == Solo

LaunchFailure ==
    [kind |-> "oserror", returncode |-> 0, stderr |-> <<>>,
     log |-> FALSE, pdf |-> FALSE]

LogOf(tex, n) == <<48 + n, 58>> \o tex \o <<255>>
PdfOf(tex) == <<37, 80, 68, 70>> \o tex

\* a compiler that has just been started
NothingWritten == [log |-> FALSE, pdf |-> FALSE]

\* the files a running compiler may write next: one it has not written in
\* this invocation, and that some way for the invocation to end includes
NextFiles(written) ==
    { f \in { "log", "pdf" } :
        /\ ~written[f]
        /\ \E o \in Outcomes :
              /\ o[f]
              /\ written.log => o.log
              /\ written.pdf => o.pdf }

\* the directory after pdflatex, running on it as pass n, wrote the files
\* that o names
AfterPass(dir, n, o) ==
    [dir EXCEPT
        !.log = IF o.log /\ IsSome(dir.tex) THEN Some(LogOf(Get(dir.tex), n)) ELSE @,
        !.pdf = IF o.pdf /\ IsSome(dir.tex) THEN Some(PdfOf(Get(dir.tex))) ELSE @]

\* ------------------------------------------------ results of compile_latex
\* lines 161-169
ValidationFailure(v) ==
    [success |-> FALSE, tex_base64 |-> <<>>, pdf_base64 |-> None,
     log_output |-> <<>>,
     error_message |->
        Some(<<"Invalid LaTeX structure", ": ">> \o Join("; ", v.missing_elements))]

PassName(n) == IF n = 1 THEN "1" ELSE "2"

\* lines 221-227 for a message that always blames the first pass
PassFailure_FirstPass(tex, log, n, stderr) ==
    [success |-> FALSE, tex_base64 |-> tex, pdf_base64 |-> None,
     log_output |-> log,
     error_message |->
        Some(<<"LaTeX compilation error on pass ", PassName(1), ": ">> \o stderr)]

\* lines 221-227
PassFailure(tex, log, n, stderr) ==
    [success |-> FALSE, tex_base64 |-> tex, pdf_base64 |-> None,
     log_output |-> log,
     error_message |->
        Some(<<"LaTeX compilation error on pass ", PassName(n), ": ">> \o stderr)]

\* lines 233-241 for a missing PDF reported as a failure of the second pass
MissingPdf_AsPassFailure(tex, log) ==
    [success |-> FALSE, tex_base64 |-> tex, pdf_base64 |-> None,
     log_output |-> log,
     error_message |->
        Some(<<"LaTeX compilation error on pass ", PassName(2), ": ">>)]

\* lines 233-241
MissingPdf(tex, log) ==
    [success |-> FALSE, tex_base64 |-> tex, pdf_base64 |-> None,
     log_output |-> log,
     error_message |->
        Some(<<"PDF file was not generated despite successful compilation">>)]

\* lines 249-255 for a success that carries an empty message
Success_WithMessage(tex, pdf, log) ==
    [success |-> TRUE, tex_base64 |-> tex, pdf_base64 |-> Some(pdf),
     log_output |-> log, error_message |-> Some(<<>>)]

\* lines 249-255
Success(tex, pdf, log) ==
    [success |-> TRUE, tex_base64 |-> tex, pdf_base64 |-> Some(pdf),
     log_output |-> log, error_message |-> None]

\* x if "x" in locals() else ""
LocalOrEmpty(local) == IF IsSome(local) THEN Get(local) ELSE <<>>

\* lines 257-266 for a handler that forgets the locals
TimedOut_NoLocals(tex_local, log_local) ==
    [success |-> FALSE, tex_base64 |-> <<>>,
     pdf_base64 |-> None, log_output |-> <<>>,
     error_message |-> Some(<<"LaTeX compilation timed out after 60 seconds">>)]

\* lines 257-266
TimedOut(tex_local, log_local) ==
    [success |-> FALSE, tex_base64 |-> LocalOrEmpty(tex_local),
     pdf_base64 |-> None, log_output |-> LocalOrEmpty(log_local),
     error_message |-> Some(<<"LaTeX compilation timed out after 60 seconds">>)]

\* lines 267-276
Unexpected(tex_local, log_local, e) ==
    [success |-> FALSE, tex_base64 |-> LocalOrEmpty(tex_local),
     pdf_base64 |-> None, log_output |-> LocalOrEmpty(log_local),
     error_message |->
        Some(<<"Unexpected error during LaTeX compilation: ", e>>)]

\* open(log_file, encoding="utf-8", errors="ignore").read(): the bytes that
\* are no UTF-8 are dropped (the files here hold ASCII and the byte 255)
DecodeIgnore(bytes) == SelectSeq(bytes, LAMBDA b : b < 128)

\* ---------------------------------------------------------------- actions
Set(f, c, v) == [f EXCEPT ![c] = v]

\* the except clauses of lines 267-276, entered from `step` with exception e
Caught(c, step, e) ==
    /\ result' = Set(result, c, Some(Unexpected(tex_base64[c], log_content[c], e)))
    /\ raised_at' = Set(raised_at, c, step)
    /\ pc' = Set(pc, c, "exit_with")

\* an exception that leaves compile_latex
Propagated(c, step) ==
    /\ result' = Set(result, c, None)
    /\ raised_at' = Set(raised_at, c, step)
    /\ pc' = Set(pc, c, "raised")

\* server.py lines 63-68: the test of the global (line 66).  No lock is
\* held: a call that finds no converter goes on to create one, whatever the
\* other calls are doing
GetLatexConverter(c) ==
    /\ pc[c] = "idle"
    /\ UNCHANGED rest
    /\ pc' = Set(pc, c, IF latex_converter = "None" THEN "checking" ELSE "called")
    /\ UNCHANGED << compiler, latex_converter, fs, scenario, content, validate_structure,
                    validation, temp_dir, tex_base64, log_content, pass_num,
                    process, result, passes, raised_at >>

\* latex_converter.py lines 45-65 and server.py line 67: the constructor
\* runs pdflatex --version; if that fails the RuntimeError leaves
\* get_latex_converter and the global stays as it is, otherwise the new
\* converter is assigned to the global, over one another call may have
\* assigned meanwhile
ValidateLatexInstallation(c) ==
    /\ pc[c] = "checking"
    /\ UNCHANGED rest
    /\ \E installed \in BOOLEAN :
          IF installed
          THEN /\ latex_converter' = "UnifiedLatexConverter"
               /\ pc' = Set(pc, c, "called")
          ELSE /\ latex_converter' = latex_converter
               /\ pc' = Set(pc, c, "no_latex")
    /\ UNCHANGED << compiler, fs, scenario, content, validate_structure, validation,
                    temp_dir, tex_base64, log_content, pass_num, process,
                    result, passes, raised_at >>

\* a complete document with n plain-text tokens in its body
Document(n) ==
    <<DocumentClass, BeginDocument>> \o [i \in 1..n |-> PlainText] \o <<EndDocument>>

\* the arguments compile_latex is called with: every source of up to
\* MaxSrcLen tokens, validated or not, for a single call; for concurrent
\* calls what server.py line 320 passes (validation left at its default),
\* call c compiling a document of its own
Sources(c) ==
    IF Solo THEN SeqsUpTo(SrcTokens, MaxSrcLen) ELSE { Document(c) }

Flags == IF scenario = "single" THEN BOOLEAN ELSE { TRUE }

\* lines 157-173 for a driver that never validates
ValidationStep_Never(c, src, validating) ==
    /\ validation' = Set(validation, c, None)
    /\ result' = result
    /\ pc' = Set(pc, c, "mkdtemp")

\* lines 157-173 for a driver that validates whatever the flag says
ValidationStep_Always(c, src, validating) ==
    LET v == validate_latex_structure(src) IN
    /\ validation' = Set(validation, c, Some(v))
    /\ IF ~v.is_valid
       THEN /\ result' = Set(result, c, Some(ValidationFailure(v)))
            /\ pc' = Set(pc, c, "returned")
       ELSE /\ result' = result
            /\ pc' = Set(pc, c, "mkdtemp")

\* lines 157-173, with validating as the test of line 158
ValidationStep(c, src, validating) ==
    LET v == validate_latex_structure(src) IN
    /\ validation' = Set(validation, c, IF validating THEN Some(v) ELSE None)
    /\ IF validating /\ ~v.is_valid
       THEN /\ result' = Set(result, c, Some(ValidationFailure(v)))
            /\ pc' = Set(pc, c, "returned")
       ELSE /\ result' = result
            /\ pc' = Set(pc, c, "mkdtemp")

\* lines 142-173: the call, up to the validation
CompileLatex(c) ==
    /\ pc[c] = "called"
    /\ UNCHANGED rest
    /\ \E src \in Sources(c), flag \in Flags :
        /\ content' = Set(content, c, src)
        /\ validate_structure' = Set(validate_structure, c, flag)
        /\ ValidationStep(c, src, flag)
    /\ UNCHANGED << compiler, latex_converter, fs, scenario, temp_dir, tex_base64,
                    log_content, pass_num, process, passes, raised_at >>

\* line 175 for a driver that works in one fixed directory
FreshDirs_Fixed == { 1 }

\* tempfile.TemporaryDirectory(): a directory under a name no directory has
FreshDirs == { d \in DirNames : ~fs[d].exists }

\* line 175, entering the with block (outside the try)
MakeTempDir(c) ==
    /\ pc[c] = "mkdtemp"
    /\ UNCHANGED rest
    /\ \/ \E d \in FreshDirs :
            /\ fs' = Set(fs, d, EmptyDir)
            /\ temp_dir' = Set(temp_dir, c, d)
            /\ pc' = Set(pc, c, "write_tex")
            /\ UNCHANGED << result, raised_at >>
       \/ /\ Faulty \/ FreshDirs = {}
          /\ Propagated(c, "mkdtemp")
          /\ UNCHANGED << fs, temp_dir >>
    /\ UNCHANGED << compiler, latex_converter, scenario, content, validate_structure,
                    validation, tex_base64, log_content, pass_num, process,
                    passes >>

\* the beginnings of a sequence of bytes, the whole of it included
Prefixes(bytes) == { SubSeq(bytes, 1, k) : k \in 0..Len(bytes) }

\* lines 182-183.  A write that fails raised either in open, before there is
\* a file, or later (file too large, disk full, failure on close), and then
\* document.tex is there with the bytes that went through
WriteTex(c) ==
    LET d == temp_dir[c] IN
    /\ pc[c] = "write_tex"
    /\ UNCHANGED rest
    /\ \/ /\ fs[d].exists
          /\ fs' = Set(fs, d, [fs[d] EXCEPT !.tex = Some(Utf8(content[c]))])
          /\ pc' = Set(pc, c, "read_tex")
          /\ UNCHANGED << result, raised_at >>
       \/ /\ Faulty \/ ~fs[d].exists
          /\ Caught(c, "write_tex", "OSError")
          /\ fs' = fs
       \/ /\ Faulty /\ fs[d].exists
          /\ Caught(c, "write_tex", "OSError")
          /\ \E written \in Prefixes(Utf8(content[c])) :
                fs' = Set(fs, d, [fs[d] EXCEPT !.tex = Some(written)])
    /\ UNCHANGED << compiler, latex_converter, scenario, content, validate_structure,
                    validation, temp_dir, tex_base64, log_content, pass_num,
                    process, passes >>

\* lines 186-189
ReadTex(c) ==
    LET d == temp_dir[c] IN
    /\ pc[c] = "read_tex"
    /\ UNCHANGED rest
    /\ \/ /\ fs[d].exists /\ IsSome(fs[d].tex)
          /\ tex_base64' = Set(tex_base64, c, Some(b64encode(Get(fs[d].tex))))
          /\ log_content' = Set(log_content, c, Some(<<>>))
          /\ pass_num' = Set(pass_num, c, 1)
          /\ pc' = Set(pc, c, "run")
          /\ UNCHANGED << result, raised_at >>
       \/ /\ Faulty \/ ~(fs[d].exists /\ IsSome(fs[d].tex))
          /\ Caught(c, "read_tex", "OSError")
          /\ UNCHANGED << tex_base64, log_content, pass_num >>
    /\ UNCHANGED << compiler, latex_converter, fs, scenario, content, validate_structure,
                    validation, temp_dir, process, passes >>

\* line 195, subprocess.run on its way in: pdflatex is started as a child
\* process in the call's directory and the call waits for it.  A directory
\* that is gone, or any other failure to start the child, raises OSError
StartPdflatex(c) ==
    LET d == temp_dir[c] IN
    /\ pc[c] = "run"
    /\ compiler[c] = None
    /\ UNCHANGED rest
    /\ \/ /\ fs[d].exists
          /\ compiler' = Set(compiler, c, Some(NothingWritten))
          /\ UNCHANGED << pc, result, raised_at, passes >>
       \/ /\ Faulty \/ ~fs[d].exists
          /\ passes' = Set(passes, c, Append(passes[c], LaunchFailure))
          /\ Caught(c, "run", "OSError")
          /\ compiler' = compiler
    /\ UNCHANGED << latex_converter, fs, scenario, content, validate_structure,
                    validation, temp_dir, tex_base64, log_content, pass_num,
                    process >>

\* line 195, while subprocess.run waits: the compiler writes document.log
\* or document.pdf from the document.tex it finds.  The call stays where it
\* is, process and every other local as they were
PdflatexWrites(c) ==
    LET d == temp_dir[c] IN
    /\ pc[c] = "run"
    /\ IsSome(compiler[c])
    /\ fs[d].exists /\ IsSome(fs[d].tex)
    /\ UNCHANGED rest
    /\ \E f \in NextFiles(Get(compiler[c])) :
          /\ compiler' = Set(compiler, c, Some([Get(compiler[c]) EXCEPT ![f] = TRUE]))
          /\ fs' = Set(fs, d, AfterPass(fs[d], pass_num[c],
                                        [log |-> f = "log", pdf |-> f = "pdf"]))
    /\ UNCHANGED << latex_converter, scenario, pc, content, validate_structure,
                    validation, temp_dir, tex_base64, log_content, pass_num,
                    process, result, passes, raised_at >>

\* lines 195-207, subprocess.run on its way out: the compiler has exited,
\* or has been killed at the timeout, having written what it has written;
\* the completed process is bound to `process`, or TimeoutExpired or
\* UnicodeDecodeError is raised
RunPdflatex(c) ==
    LET d == temp_dir[c]
        written == Get(compiler[c])
    IN
    /\ pc[c] = "run"
    /\ IsSome(compiler[c])
    /\ UNCHANGED rest
    /\ compiler' = Set(compiler, c, None)
    /\ \/ \E o \in Outcomes :
             /\ o.log = written.log /\ o.pdf = written.pdf
             /\ (fs[d].exists /\ IsSome(fs[d].tex))
                   \/ (o.kind = "exit" /\ o.returncode # 0)
             /\ passes' = Set(passes, c, Append(passes[c], o))
             /\ IF o.kind = "timeout"
                THEN /\ result' = Set(result, c,
                             Some(TimedOut(tex_base64[c], log_content[c])))
                     /\ pc' = Set(pc, c, "exit_with")
                     /\ process' = process
                ELSE /\ process' = Set(process, c,
                             [returncode |-> o.returncode, stderr |-> o.stderr])
                     /\ pc' = Set(pc, c, "read_log")
                     /\ result' = result
             /\ raised_at' = raised_at
       \/ /\ Faulty
          /\ \E o \in Undecodable :
                /\ o.log = written.log /\ o.pdf = written.pdf
                /\ passes' = Set(passes, c, Append(passes[c], o))
          /\ Caught(c, "run", "UnicodeDecodeError")
          /\ process' = process
    /\ UNCHANGED << latex_converter, fs, scenario, content, validate_structure,
                    validation, temp_dir, tex_base64, log_content, pass_num >>

\* line 215 for a pass that never counts as failed
PassFailed_Never(proc) == FALSE

\* line 215: if process.returncode != 0
PassFailed(proc) == proc.returncode # 0

\* line 192 for a loop of three passes
MorePasses_Three(n) == n < 3

\* line 192: for pass_num in range(1, 3), after pass n
MorePasses(n) == n < 2

\* lines 209-212 for a read that keeps a log captured after an earlier pass
LogRead_KeepFirst(dir, log_local) ==
    IF Get(log_local) # <<>>
    THEN Get(log_local)
    ELSE IF dir.exists /\ IsSome(dir.log)
         THEN DecodeIgnore(Get(dir.log))
         ELSE Get(log_local)

\* lines 209-212: log_content after the pass, read from the log file if it
\* exists and left as it was otherwise
LogRead(dir, log_local) ==
    IF dir.exists /\ IsSome(dir.log)
    THEN DecodeIgnore(Get(dir.log))
    ELSE Get(log_local)

\* lines 209-229: read the log if there is one, then test the return code
ReadLog(c) ==
    LET d == temp_dir[c]
        log == LogRead(fs[d], log_content[c])
    IN
    /\ pc[c] = "read_log"
    /\ UNCHANGED rest
    /\ \/ /\ log_content' = Set(log_content, c, Some(log))
          /\ process' = Set(process, c, NoProcess)
          /\ raised_at' = raised_at
          /\ IF PassFailed(process[c])
             THEN /\ result' = Set(result, c,
                        Some(PassFailure(Get(tex_base64[c]), log, pass_num[c],
                                         process[c].stderr)))
                  /\ pc' = Set(pc, c, "exit_with")
                  /\ pass_num' = pass_num
             ELSE /\ result' = result
                  /\ IF MorePasses(pass_num[c])
                     THEN /\ pass_num' = Set(pass_num, c, pass_num[c] + 1)
                          /\ pc' = Set(pc, c, "run")
                     ELSE /\ pass_num' = pass_num
                          /\ pc' = Set(pc, c, "read_pdf")
       \/ /\ Faulty /\ fs[d].exists /\ IsSome(fs[d].log)
          /\ Caught(c, "read_log", "OSError")
          /\ process' = Set(process, c, NoProcess)
          /\ UNCHANGED << log_content, pass_num >>
    /\ UNCHANGED << compiler, latex_converter, fs, scenario, content, validate_structure,
                    validation, temp_dir, tex_base64, passes >>

\* lines 231-255
ReadPdf(c) ==
    LET d == temp_dir[c] IN
    /\ pc[c] = "read_pdf"
    /\ UNCHANGED rest
    /\ \/ /\ ~(fs[d].exists /\ IsSome(fs[d].pdf))
          /\ result' = Set(result, c,
                Some(MissingPdf(Get(tex_base64[c]), Get(log_content[c]))))
          /\ pc' = Set(pc, c, "exit_with")
          /\ raised_at' = raised_at
       \/ /\ fs[d].exists /\ IsSome(fs[d].pdf)
          /\ result' = Set(result, c,
                Some(Success(Get(tex_base64[c]), b64encode(Get(fs[d].pdf)),
                             Get(log_content[c]))))
          /\ pc' = Set(pc, c, "exit_with")
          /\ raised_at' = raised_at
       \/ /\ Faulty /\ fs[d].exists /\ IsSome(fs[d].pdf)
          /\ Caught(c, "read_pdf", "OSError")
    /\ UNCHANGED << compiler, latex_converter, fs, scenario, content, validate_structure,
                    validation, temp_dir, tex_base64, log_content, pass_num,
                    process, passes >>

\* line 175 for a directory made with mkdtemp and never removed
Cleanup_Never(dir) == dir

\* TemporaryDirectory.__exit__: the directory and all in it are removed
Cleanup(dir) == NoDir

\* shutil.rmtree cut short by an error: the files it had visited before are
\* gone, the others and the directory are still there
PartlyRemoved(dir) ==
    { [exists |-> TRUE,
       tex |-> IF "tex" \in gone THEN None ELSE dir.tex,
       log |-> IF "log" \in gone THEN None ELSE dir.log,
       pdf |-> IF "pdf" \in gone THEN None ELSE dir.pdf] :
         gone \in SUBSET { "tex", "log", "pdf" } }

\* line 175, leaving the with block with the result to return; a directory
\* that is already gone is no error, any other failure to remove it is raised
ExitWith(c) ==
    LET d == temp_dir[c] IN
    /\ pc[c] = "exit_with"
    /\ UNCHANGED rest
    /\ \/ /\ fs' = Set(fs, d, IF fs[d].exists THEN Cleanup(fs[d]) ELSE fs[d])
          /\ pc' = Set(pc, c, "returned")
          /\ UNCHANGED << result, raised_at >>
       \/ /\ Faulty /\ fs[d].exists
          /\ Propagated(c, "exit_with")
          /\ \E left \in PartlyRemoved(fs[d]) : fs' = Set(fs, d, left)
    /\ UNCHANGED << compiler, latex_converter, scenario, content, validate_structure,
                    validation, temp_dir, tex_base64, log_content, pass_num,
                    process, passes >>

\* --------------------------------------------------------- specifications
\* nothing but compile_latex and the validator has run
InitRest ==
    /\ simple = [c \in Calls |-> None]
    /\ input = None
    /\ output = None
    /\ config_data = << >>
    /\ config_file = None
    /\ last_call = None

InitCompile(started, kind) ==
    /\ latex_converter = "None"
    /\ compiler = [c \in Calls |-> None]
    /\ fs = [d \in DirNames |-> NoDir]
    /\ scenario = kind
    /\ pc = [c \in Calls |-> IF c \in started THEN "idle" ELSE "off"]
    /\ content = [c \in Calls |-> <<>>]
    /\ validate_structure = [c \in Calls |-> FALSE]
    /\ validation = [c \in Calls |-> None]
    /\ temp_dir = [c \in Calls |-> 0]
    /\ tex_base64 = [c \in Calls |-> None]
    /\ log_content = [c \in Calls |-> None]
    /\ pass_num = [c \in Calls |-> 0]
    /\ process = [c \in Calls |-> NoProcess]
    /\ result = [c \in Calls |-> None]
    /\ passes = [c \in Calls |-> <<>>]
    /\ raised_at = [c \in Calls |-> "none"]

\* the calls of compile_latex in `started` are about to be made
InitCalls(started, kind) == InitCompile(started, kind) /\ InitRest

\* one call, in an environment whose file and process operations may fail
Init == InitCalls({1}, "single")

Next ==
    \/ \E c \in Calls : GetLatexConverter(c)
    \/ \E c \in Calls : ValidateLatexInstallation(c)
    \/ \E c \in Calls : CompileLatex(c)
    \/ \E c \in Calls : MakeTempDir(c)
    \/ \E c \in Calls : WriteTex(c)
    \/ \E c \in Calls : ReadTex(c)
    \/ \E c \in Calls : StartPdflatex(c)
    \/ \E c \in Calls : PdflatexWrites(c)
    \/ \E c \in Calls : RunPdflatex(c)
    \/ \E c \in Calls : ReadLog(c)
    \/ \E c \in Calls : ReadPdf(c)
    \/ \E c \in Calls : ExitWith(c)

Spec == Init /\ [][Next]_vars

\* lines 68-140 applied to the source of call c
ValidateLatexStructure(c) ==
    /\ pc[c] = "validate"
    /\ UNCHANGED rest
    /\ validation' = Set(validation, c, Some(validate_latex_structure(content[c])))
    /\ pc' = Set(pc, c, "validated")
    /\ UNCHANGED << compiler, latex_converter, fs, scenario, content, validate_structure,
                    temp_dir, tex_base64, log_content, pass_num, process,
                    result, passes, raised_at >>

\* the validator alone, on every source of up to MaxLen tokens
InitValidator ==
    /\ latex_converter = "None"
    /\ compiler = [c \in Calls |-> None]
    /\ fs = [d \in DirNames |-> NoDir]
    /\ scenario = "validator"
    /\ pc = [c \in Calls |-> IF c = 1 THEN "validate" ELSE "off"]
    /\ \E src \in SeqsUpTo(Tokens, MaxLen) :
            content = [c \in Calls |-> IF c = 1 THEN src ELSE <<>>]
    /\ validate_structure = [c \in Calls |-> FALSE]
    /\ validation = [c \in Calls |-> None]
    /\ temp_dir = [c \in Calls |-> 0]
    /\ tex_base64 = [c \in Calls |-> None]
    /\ log_content = [c \in Calls |-> None]
    /\ pass_num = [c \in Calls |-> 0]
    /\ process = [c \in Calls |-> NoProcess]
    /\ result = [c \in Calls |-> None]
    /\ passes = [c \in Calls |-> <<>>]
    /\ raised_at = [c \in Calls |-> "none"]
    /\ InitRest

NextValidator == \E c \in Calls : ValidateLatexStructure(c)

SpecValidator == InitValidator /\ [][NextValidator]_vars

\* lines 294-300: what compile_latex_simple makes of the result
SimpleOutcome(res) ==
    IF ~res.success
    THEN IF IsSome(res.error_message)
            /\ Has(Get(res.error_message), "Invalid LaTeX structure")
         THEN Raise("ValueError")
         ELSE Raise("RuntimeError")
    ELSE Return(<< res.tex_base64, res.pdf_base64 >>)

\* lines 278-300: compile_latex_simple once its call of compile_latex
\* (line 292, validation left at its default) has returned or raised
CompileLatexSimple(c) ==
    /\ scenario = "simple"
    /\ pc[c] \in { "returned", "raised" }
    /\ simple[c] = None
    /\ simple' = Set(simple, c, Some(IF pc[c] = "raised" THEN Raise("OSError")
                                     ELSE SimpleOutcome(Get(result[c]))))
    /\ pc' = Set(pc, c, "simple_done")
    /\ UNCHANGED << compiler, latex_converter, fs, scenario, content, validate_structure,
                    validation, temp_dir, tex_base64, log_content, pass_num,
                    process, result, passes, raised_at, input, output,
                    config_data, config_file, last_call >>

\* one call of compile_latex_simple, in an environment whose file and
\* process operations may fail
InitSimple == InitCalls({1}, "simple")

NextSimple ==
    \/ \E c \in Calls : GetLatexConverter(c)
    \/ \E c \in Calls : ValidateLatexInstallation(c)
    \/ \E c \in Calls : CompileLatex(c)
    \/ \E c \in Calls : MakeTempDir(c)
    \/ \E c \in Calls : WriteTex(c)
    \/ \E c \in Calls : ReadTex(c)
    \/ \E c \in Calls : StartPdflatex(c)
    \/ \E c \in Calls : PdflatexWrites(c)
    \/ \E c \in Calls : RunPdflatex(c)
    \/ \E c \in Calls : ReadLog(c)
    \/ \E c \in Calls : ReadPdf(c)
    \/ \E c \in Calls : ExitWith(c)
    \/ \E c \in Calls : CompileLatexSimple(c)

SpecSimple == InitSimple /\ [][NextSimple]_vars

\* all the calls together, interleaved step by step
InitConcurrent == InitCalls(Calls, "concurrent")

SpecConcurrent == InitConcurrent /\ [][Next]_vars

\* ------------------------------------------------- resume text as lines
\* beetune/formatters/resume_formatter.py works on plain text.  A text is
\* the sequence of its lines (what text.split("\n") gives, so the empty
\* text is one empty line) and a line is a sequence of tokens: words,
\* punctuation marks and the blank " ", the only whitespace in a line.
EmptyText == << <<>> >>

\* str.strip() of a line
lstrip(line) ==
    IF \A i \in 1..Len(line) : line[i] = " " THEN <<>>
    ELSE SubSeq(line, CHOOSE i \in 1..Len(line) :
                        line[i] # " " /\ \A j \in 1..(i - 1) : line[j] = " ",
                Len(line))

rstrip(line) ==
    IF \A i \in 1..Len(line) : line[i] = " " THEN <<>>
    ELSE SubSeq(line, 1,
                CHOOSE i \in 1..Len(line) :
                    line[i] # " " /\ \A j \in (i + 1)..Len(line) : line[j] = " ")

strip(line) == lstrip(rstrip(line))

\* str.strip() of a text of several lines: the blank lines at both ends go,
\* and so does the whitespace before the first and after the last token
strip_text(text) ==
    LET inked == { i \in 1..Len(text) : strip(text[i]) # <<>> } IN
    IF inked = {} THEN EmptyText
    ELSE LET first == CHOOSE i \in inked : \A j \in inked : i <= j
             last  == CHOOSE i \in inked : \A j \in inked : j <= i
         IN  IF first = last THEN << strip(text[first]) >>
             ELSE << lstrip(text[first]) >> \o SubSeq(text, first + 1, last - 1)
                  \o << rstrip(text[last]) >>

\* "\n".join(lines) for strings of one line each
text_of(lines) == IF lines = <<>> THEN EmptyText ELSE lines

\* "\n".join(texts)
join_lines(texts) == IF texts = <<>> THEN EmptyText ELSE Flatten(texts)

\* The patterns of the formatter work on the characters of a line, across
\* its tokens.  A character is a string of length one.
Digits == { "0", "1", "2", "3", "4", "5", "6", "7", "8", "9" }
LowerLetters ==
    << "a", "b", "c", "d", "e", "f", "g", "h", "i", "j", "k", "l", "m",
       "n", "o", "p", "q", "r", "s", "t", "u", "v", "w", "x", "y", "z" >>
UpperLetters ==
    << "A", "B", "C", "D", "E", "F", "G", "H", "I", "J", "K", "L", "M",
       "N", "O", "P", "Q", "R", "S", "T", "U", "V", "W", "X", "Y", "Z" >>
Letters ==
    { LowerLetters[i] : i \in 1..26 } \cup { UpperLetters[i] : i \in 1..26 }

\* \w
WordChars == Letters \cup Digits \cup { "_" }

\* the small letter of each capital letter
LowerTable ==
    [ch \in { UpperLetters[i] : i \in 1..26 } |->
        LowerLetters[CHOOSE i \in 1..26 : UpperLetters[i] = ch]]

\* str.lower() of a character
CharLower(ch) == IF ch \in DOMAIN LowerTable THEN LowerTable[ch] ELSE ch

\* str.lower() of a token: every token of the texts and of the section
\* titles that has a capital is listed, a capital letter gives its small
\* letter, the others are left as they are
lower(t) ==
    CASE t = "Skills" -> "skills"
      [] t = "EXPERIENCE" -> "experience"
      [] t = "Experience" -> "experience"
      [] t = "Work" -> "work"
      [] t = "Summary" -> "summary"
      [] t = "Education" -> "education"
      [] t = "Python" -> "python"
      [] t = "SQL" -> "sql"
      [] t = "Jane" -> "jane"
      [] t = "Doe" -> "doe"
      [] t = "Bob" -> "bob"
      [] t = "Senior" -> "senior"
      [] t = "Software" -> "software"
      [] t = "Engineer" -> "engineer"
      [] t = "Acme" -> "acme"
      [] t = "Email" -> "email"
      [] t = "Phone" -> "phone"
      [] t = "University" -> "university"
      [] t = "Built" -> "built"
      [] t = "LinkedIn" -> "linkedin"
      [] t = "JavaScript" -> "javascript"
      [] t = "Languages" -> "languages"
      [] t = "Achievements" -> "achievements"
      [] t = "Awards" -> "awards"
      [] t = "Certifications" -> "certifications"
      [] t = "Header" -> "header"
      [] t = "Projects" -> "projects"
      [] t = "Publications" -> "publications"
      [] t = "Volunteer" -> "volunteer"
      [] t = "LinkedIn.com/in/Jane" -> "linkedin.com/in/jane"
      [] OTHER -> CharLower(t)

\* a Python dict: the keys in insertion order, each with its value
DictHas(d, k) == \E i \in 1..Len(d) : d[i].key = k
DictGet(d, k) == d[CHOOSE i \in 1..Len(d) : d[i].key = k].value
DictKeys(d) == [i \in 1..Len(d) |-> d[i].key]
\* d[k] = v
DictPut(d, k, v) ==
    IF DictHas(d, k)
    THEN [i \in 1..Len(d) |-> IF d[i].key = k THEN [key |-> k, value |-> v] ELSE d[i]]
    ELSE Append(d, [key |-> k, value |-> v])
\* del d[k]
DictDel(d, k) == SelectSeq(d, LAMBDA e : e.key # k)

\* ------------------------------------------------------------ characters
\* the characters of the tokens of more than one character
CharsTable ==
    ("2020" :> << "2", "0", "2", "0" >>)
    @@ ("555-123-4567" :> << "5", "5", "5", "-", "1", "2", "3", "-", "4", "5", "6", "7" >>)
    @@ ("Achievements" :> << "A", "c", "h", "i", "e", "v", "e", "m", "e", "n", "t", "s" >>)
    @@ ("Acme" :> << "A", "c", "m", "e" >>)
    @@ ("Awards" :> << "A", "w", "a", "r", "d", "s" >>)
    @@ ("Bob" :> << "B", "o", "b" >>)
    @@ ("Built" :> << "B", "u", "i", "l", "t" >>)
    @@ ("Certifications" :> << "C", "e", "r", "t", "i", "f", "i", "c", "a", "t", "i", "o", "n", "s" >>)
    @@ ("Doe" :> << "D", "o", "e" >>)
    @@ ("EXPERIENCE" :> << "E", "X", "P", "E", "R", "I", "E", "N", "C", "E" >>)
    @@ ("Education" :> << "E", "d", "u", "c", "a", "t", "i", "o", "n" >>)
    @@ ("Email" :> << "E", "m", "a", "i", "l" >>)
    @@ ("Engineer" :> << "E", "n", "g", "i", "n", "e", "e", "r" >>)
    @@ ("Experience" :> << "E", "x", "p", "e", "r", "i", "e", "n", "c", "e" >>)
    @@ ("Header" :> << "H", "e", "a", "d", "e", "r" >>)
    @@ ("Jane" :> << "J", "a", "n", "e" >>)
    @@ ("JavaScript" :> << "J", "a", "v", "a", "S", "c", "r", "i", "p", "t" >>)
    @@ ("Languages" :> << "L", "a", "n", "g", "u", "a", "g", "e", "s" >>)
    @@ ("LinkedIn" :> << "L", "i", "n", "k", "e", "d", "I", "n" >>)
    @@ ("LinkedIn.com/in/Jane" :> << "L", "i", "n", "k", "e", "d", "I", "n", ".", "c", "o", "m", "/", "i", "n", "/", "J", "a", "n", "e" >>)
    @@ ("Phone" :> << "P", "h", "o", "n", "e" >>)
    @@ ("Projects" :> << "P", "r", "o", "j", "e", "c", "t", "s" >>)
    @@ ("Publications" :> << "P", "u", "b", "l", "i", "c", "a", "t", "i", "o", "n", "s" >>)
    @@ ("Python" :> << "P", "y", "t", "h", "o", "n" >>)
    @@ ("SQL" :> << "S", "Q", "L" >>)
    @@ ("Senior" :> << "S", "e", "n", "i", "o", "r" >>)
    @@ ("Skills" :> << "S", "k", "i", "l", "l", "s" >>)
    @@ ("Software" :> << "S", "o", "f", "t", "w", "a", "r", "e" >>)
    @@ ("Summary" :> << "S", "u", "m", "m", "a", "r", "y" >>)
    @@ ("University" :> << "U", "n", "i", "v", "e", "r", "s", "i", "t", "y" >>)
    @@ ("Volunteer" :> << "V", "o", "l", "u", "n", "t", "e", "e", "r" >>)
    @@ ("Work" :> << "W", "o", "r", "k" >>)
    @@ ("achievement" :> << "a", "c", "h", "i", "e", "v", "e", "m", "e", "n", "t" >>)
    @@ ("achievements" :> << "a", "c", "h", "i", "e", "v", "e", "m", "e", "n", "t", "s" >>)
    @@ ("acme" :> << "a", "c", "m", "e" >>)
    @@ ("at" :> << "a", "t" >>)
    @@ ("awards" :> << "a", "w", "a", "r", "d", "s" >>)
    @@ ("bachelor" :> << "b", "a", "c", "h", "e", "l", "o", "r" >>)
    @@ ("bob" :> << "b", "o", "b" >>)
    @@ ("bob@y.com" :> << "b", "o", "b", "@", "y", ".", "c", "o", "m" >>)
    @@ ("built" :> << "b", "u", "i", "l", "t" >>)
    @@ ("certification" :> << "c", "e", "r", "t", "i", "f", "i", "c", "a", "t", "i", "o", "n" >>)
    @@ ("certifications" :> << "c", "e", "r", "t", "i", "f", "i", "c", "a", "t", "i", "o", "n", "s" >>)
    @@ ("college" :> << "c", "o", "l", "l", "e", "g", "e" >>)
    @@ ("doe" :> << "d", "o", "e" >>)
    @@ ("education" :> << "e", "d", "u", "c", "a", "t", "i", "o", "n" >>)
    @@ ("email" :> << "e", "m", "a", "i", "l" >>)
    @@ ("engineer" :> << "e", "n", "g", "i", "n", "e", "e", "r" >>)
    @@ ("experience" :> << "e", "x", "p", "e", "r", "i", "e", "n", "c", "e" >>)
    @@ ("github" :> << "g", "i", "t", "h", "u", "b" >>)
    @@ ("github.com/" :> << "g", "i", "t", "h", "u", "b", ".", "c", "o", "m", "/" >>)
    @@ ("github.com/jane" :> << "g", "i", "t", "h", "u", "b", ".", "c", "o", "m", "/", "j", "a", "n", "e" >>)
    @@ ("header" :> << "h", "e", "a", "d", "e", "r" >>)
    @@ ("jane" :> << "j", "a", "n", "e" >>)
    @@ ("jane@x.org" :> << "j", "a", "n", "e", "@", "x", ".", "o", "r", "g" >>)
    @@ ("javascript" :> << "j", "a", "v", "a", "s", "c", "r", "i", "p", "t" >>)
    @@ ("languages" :> << "l", "a", "n", "g", "u", "a", "g", "e", "s" >>)
    @@ ("linkedin" :> << "l", "i", "n", "k", "e", "d", "i", "n" >>)
    @@ ("linkedin.com/in/" :> << "l", "i", "n", "k", "e", "d", "i", "n", ".", "c", "o", "m", "/", "i", "n", "/" >>)
    @@ ("linkedin.com/in/jane" :> << "l", "i", "n", "k", "e", "d", "i", "n", ".", "c", "o", "m", "/", "i", "n", "/", "j", "a", "n", "e" >>)
    @@ ("master" :> << "m", "a", "s", "t", "e", "r" >>)
    @@ ("phd" :> << "p", "h", "d" >>)
    @@ ("phone" :> << "p", "h", "o", "n", "e" >>)
    @@ ("professional" :> << "p", "r", "o", "f", "e", "s", "s", "i", "o", "n", "a", "l" >>)
    @@ ("project" :> << "p", "r", "o", "j", "e", "c", "t" >>)
    @@ ("projects" :> << "p", "r", "o", "j", "e", "c", "t", "s" >>)
    @@ ("publication" :> << "p", "u", "b", "l", "i", "c", "a", "t", "i", "o", "n" >>)
    @@ ("publications" :> << "p", "u", "b", "l", "i", "c", "a", "t", "i", "o", "n", "s" >>)
    @@ ("python" :> << "p", "y", "t", "h", "o", "n" >>)
    @@ ("senior" :> << "s", "e", "n", "i", "o", "r" >>)
    @@ ("skill" :> << "s", "k", "i", "l", "l" >>)
    @@ ("skills" :> << "s", "k", "i", "l", "l", "s" >>)
    @@ ("software" :> << "s", "o", "f", "t", "w", "a", "r", "e" >>)
    @@ ("sql" :> << "s", "q", "l" >>)
    @@ ("summary" :> << "s", "u", "m", "m", "a", "r", "y" >>)
    @@ ("technical" :> << "t", "e", "c", "h", "n", "i", "c", "a", "l" >>)
    @@ ("university" :> << "u", "n", "i", "v", "e", "r", "s", "i", "t", "y" >>)
    @@ ("volunteer" :> << "v", "o", "l", "u", "n", "t", "e", "e", "r" >>)
    @@ ("work" :> << "w", "o", "r", "k" >>)

\* the characters of a token; a token that is not listed is one character
\* (a punctuation mark, a digit, a letter, the blank, the bullet)
Chars(t) == IF t \in DOMAIN CharsTable THEN CharsTable[t] ELSE << t >>

\* the characters of a line
LineChars(line) == Flatten([i \in 1..Len(line) |-> Chars(line[i])])

\* s.lower()
LowerChars(s) == [i \in 1..Len(s) |-> CharLower(s[i])]

\* word in s, for a word that is not empty
Contains(s, word) ==
    \E p \in 1..(Len(s) - Len(word) + 1) :
        s[p] = word[1] /\ SubSeq(s, p, p + Len(word) - 1) = word

\* --------------------------------------------------------------- patterns
\* A pattern is a sequence of items.  An item is a character class taken
\* `least` to `most` times (any number of times from `least` on when `open`),
\* as many as possible first, or the assertion \b.
Times(class, least, most) ==
    [class |-> class, least |-> least, most |-> most, open |-> FALSE,
     boundary |-> FALSE]
AtLeast(class, least) ==
    [class |-> class, least |-> least, most |-> least, open |-> TRUE,
     boundary |-> FALSE]
Optional(class) == Times(class, 0, 1)
Literal(chars) == [i \in 1..Len(chars) |-> Times({ chars[i] }, 1, 1)]
WordBoundary ==
    [class |-> { }, least |-> 0, most |-> 0, open |-> FALSE, boundary |-> TRUE]

\* \b before the character at pos
AtBoundary(s, pos) ==
    LET IsWord(i) == i >= 1 /\ i <= Len(s) /\ s[i] \in WordChars
    IN  IsWord(pos - 1) # IsWord(pos)

\* the number of characters of the class that stand at pos, counted from
\* n on and up to limit
RECURSIVE Run(_, _, _, _, _)
Run(class, s, pos, n, limit) ==
    IF n < limit /\ s[pos + n] \in class THEN Run(class, s, pos, n + 1, limit) ELSE n

\* how many characters from pos on the item can take at most
RunLength(item, s, pos) ==
    LET left == Len(s) - pos + 1
        limit == IF item.open \/ left < item.most THEN left ELSE item.most
    IN  Run(item.class, s, pos, 0, limit)

\* the matcher of the re module on the items from the k-th on, at pos: each
\* item takes as much as it can and gives back one character at a time
\* until the rest of the pattern matches.  The value is the position after
\* the match, 0 if there is none.  re_take is the k-th item taking n
\* characters, and fewer if the rest does not match; the rest is tried only
\* where its first item, if it must take a character, finds one of its own
CanFollow(pattern, k, s, pos) ==
    \/ k > Len(pattern)
    \/ pattern[k].boundary
    \/ pattern[k].least = 0
    \/ (pos <= Len(s) /\ s[pos] \in pattern[k].class)

RECURSIVE re_match(_, _, _, _)
RECURSIVE re_take(_, _, _, _, _)
re_take(pattern, s, pos, k, n) ==
    IF n < pattern[k].least THEN 0
    ELSE LET after == IF CanFollow(pattern, k + 1, s, pos + n)
                      THEN re_match(pattern, s, pos + n, k + 1)
                      ELSE 0
         IN  IF after # 0 THEN after ELSE re_take(pattern, s, pos, k, n - 1)
re_match(pattern, s, pos, k) ==
    IF k > Len(pattern) THEN pos
    ELSE IF pattern[k].boundary
         THEN IF AtBoundary(s, pos) THEN re_match(pattern, s, pos, k + 1) ELSE 0
         ELSE re_take(pattern, s, pos, k, RunLength(pattern[k], s, pos))

\* the least number of characters a match of the items from the k-th on has
RECURSIVE MinWidth(_, _)
MinWidth(pattern, k) ==
    IF k > Len(pattern) THEN 0 ELSE pattern[k].least + MinWidth(pattern, k + 1)

\* the characters a match of the items from the k-th on may begin with
RECURSIVE FirstChars(_, _)
FirstChars(pattern, k) ==
    IF k > Len(pattern) THEN { }
    ELSE IF pattern[k].boundary THEN FirstChars(pattern, k + 1)
    ELSE IF pattern[k].least = 0
         THEN pattern[k].class \cup FirstChars(pattern, k + 1)
         ELSE pattern[k].class

\* re.search(pattern, s), for a pattern that matches no empty string: the
\* leftmost match, as the position of its first character and the position
\* after its last one (0 and 0 if there is none).  As in the re module, a
\* position is tried only if enough characters are left for a match and the
\* character there can begin one (first lists those characters, last is the
\* last position with enough characters left)
RECURSIVE re_from(_, _, _, _, _)
re_from(pattern, s, p, first, last) ==
    IF p > last THEN [start |-> 0, end |-> 0]
    ELSE LET after == IF s[p] \in first THEN re_match(pattern, s, p, 1) ELSE 0 IN
         IF after # 0 THEN [start |-> p, end |-> after]
         ELSE re_from(pattern, s, p + 1, first, last)
re_search(pattern, s) ==
    re_from(pattern, s, 1, FirstChars(pattern, 1), Len(s) - MinWidth(pattern, 1) + 1)

\* match.group() of a match found in the characters of the line (lowered
\* first if `lowered`): the tokens the match covers, and of a token it
\* covers in part the characters it covers
Group(line, found, lowered) ==
    IF found.start = 0 THEN << >>
    ELSE LET First(i) == Len(LineChars(SubSeq(line, 1, i - 1))) + 1
             After(i) == Len(LineChars(SubSeq(line, 1, i))) + 1
             Low(chars) == IF lowered THEN LowerChars(chars) ELSE chars
             Piece(i) ==
                IF After(i) <= found.start \/ First(i) >= found.end THEN << >>
                ELSE IF found.start <= First(i) /\ After(i) <= found.end
                     THEN << IF lowered THEN lower(line[i]) ELSE line[i] >>
                     ELSE LET from == IF found.start > First(i)
                                      THEN found.start ELSE First(i)
                              to == IF found.end < After(i)
                                    THEN found.end ELSE After(i)
                          IN  Low(SubSeq(Chars(line[i]), from - First(i) + 1,
                                         to - First(i)))
         IN  Flatten([i \in 1..Len(line) |-> Piece(i)])

\* -------------------------------------------------- parse_resume_sections
\* lines 138-147: each heading pattern, as the word sequences it accepts
\* between the optional blanks and the optional colon, each word as its
\* characters, and its section name
section_patterns ==
    LET listed ==
        << [phrases |-> { <<"experience">>, <<"work", "experience">>,
                          <<"professional", "experience">>,
                          <<"professional", "work", "experience">> },
            name |-> "experience"],
           [phrases |-> { <<"skills">>, <<"skill">>, <<"technical", "skills">>,
                          <<"technical", "skill">> },
            name |-> "skills"],
           [phrases |-> { <<"education">> }, name |-> "education"],
           [phrases |-> { <<"summary">>, <<"professional", "summary">> },
            name |-> "summary"],
           [phrases |-> { <<"projects">>, <<"project">> }, name |-> "projects"],
           [phrases |-> { <<"certifications">>, <<"certification">> },
            name |-> "certifications"],
           [phrases |-> { <<"achievements">>, <<"achievement">> },
            name |-> "achievements"],
           [phrases |-> { <<"publications">>, <<"publication">> },
            name |-> "publications"] >>
    IN  [i \in 1..Len(listed) |->
            [phrases |-> { [j \in 1..Len(phrase) |-> Chars(phrase[j])] :
                            phrase \in listed[i].phrases },
             name |-> listed[i].name]]

\* str.split() of a sequence of characters: its runs of characters that
\* are no blanks
RECURSIVE split(_)
split(s) ==
    LET t == lstrip(s)
        blanks == { i \in 1..Len(t) : t[i] = " " }
        n == IF blanks = {} THEN Len(t) + 1
             ELSE CHOOSE i \in blanks : \A j \in blanks : i <= j
    IN  IF t = <<>> THEN <<>>
        ELSE << SubSeq(t, 1, n - 1) >> \o split(SubSeq(t, n, Len(t)))

\* what re.match with re.IGNORECASE reads of the line for a pattern
\* ^\s*(words separated by \s+)\s*:?\s*$: the words of the lowered line
\* without its blanks at the end and the colon before them
HeadingWords(line_stripped) ==
    LET s == rstrip(LowerChars(LineChars(line_stripped)))
    IN  split(IF s # <<>> /\ s[Len(s)] = ":" THEN SubSeq(s, 1, Len(s) - 1) ELSE s)

\* re.match(pattern, line_stripped, re.IGNORECASE)
HeadingMatch(pattern, line_stripped) ==
    HeadingWords(line_stripped) \in pattern.phrases

\* lines 160-171: the name of the first pattern that matches, "" if none does
SectionFound(line_stripped) ==
    LET words == HeadingWords(line_stripped)
        hits == { i \in 1..Len(section_patterns) :
                    words \in section_patterns[i].phrases }
    IN  IF hits = {} THEN ""
        ELSE section_patterns[CHOOSE i \in hits : \A j \in hits : i <= j].name

\* lines 164-165 and 179-180 for a parser that also stores an empty block
SaveSection_Always(sections, current_section, current_content) ==
    DictPut(sections, current_section, strip_text(current_content))

\* lines 164-165 and 179-180 for a parser that drops a block of blank lines
SaveSection_OnlyInked(sections, current_section, current_content) ==
    IF strip_text(current_content) # EmptyText
    THEN DictPut(sections, current_section, strip_text(current_content))
    ELSE sections

\* lines 164-165 and 179-180: if current_content: sections[...] = ...
SaveSection(sections, current_section, current_content) ==
    IF current_content # <<>>
    THEN DictPut(sections, current_section, strip_text(current_content))
    ELSE sections

\* lines 153-182: the loop from line i on
RECURSIVE ParseLines(_, _, _, _, _)
ParseLines(lines, i, sections, current_section, current_content) ==
    IF i > Len(lines)
    THEN SaveSection(sections, current_section, current_content)
    ELSE LET section_name == SectionFound(strip(lines[i])) IN
         IF section_name # ""
         THEN ParseLines(lines, i + 1,
                         SaveSection(sections, current_section, current_content),
                         section_name, <<>>)
         ELSE ParseLines(lines, i + 1, sections, current_section,
                         Append(current_content, lines[i]))

\* lines 127-182
parse_resume_sections(resume_text) ==
    ParseLines(resume_text, 1, <<>>, "header", <<>>)

\* one function of the formatter, applied once to one of `inputs`
InitFormatter(kind, inputs) ==
    /\ InitCompile({}, kind)
    /\ simple = [c \in Calls |-> None]
    /\ input \in inputs
    /\ output = None
    /\ config_data = << >>
    /\ config_file = None
    /\ last_call = None

\* every text of one to n lines taken from `lines`
TextsUpTo(lines, n) == UNION { [1..k -> lines] : k \in 1..n }

\* the lines the section parser is exercised on: two headings of different
\* kinds, written differently, two content lines, an empty line and a blank one
SectionLines ==
    { <<"Skills">>, <<" ", "EXPERIENCE", ":", " ">>, <<"Python">>,
      <<" ", "SQL", " ">>, <<>>, <<" ">> }

ParseResumeSections ==
    /\ scenario = "sections"
    /\ output = None
    /\ output' = Some(parse_resume_sections(input))
    /\ UNCHANGED << compile_vars, simple, input, config_data, config_file, last_call >>

InitSections == InitFormatter("sections", TextsUpTo(SectionLines, MaxLines))

NextSections == ParseResumeSections

SpecSections == InitSections /\ [][NextSections]_vars

\* --------------------------------------------------- extract_contact_info
\* line 84: [:10]
ScanLimit == 10

\* line 90: \b[A-Za-z0-9._%+-]+@[A-Za-z0-9.-]+\.[A-Z|a-z]{2,}\b
EmailPattern ==
    << WordBoundary,
       AtLeast(Letters \cup Digits \cup { ".", "_", "%", "+", "-" }, 1),
       Times({ "@" }, 1, 1),
       AtLeast(Letters \cup Digits \cup { ".", "-" }, 1),
       Times({ "." }, 1, 1),
       AtLeast(Letters \cup { "|" }, 2),
       WordBoundary >>

\* line 95: [\+]?[1-9]?[\-\s\.]?\(?[0-9]{3}\)?[\-\s\.]?[0-9]{3}[\-\s\.]?[0-9]{4}
\* (the blank is the only whitespace of a line)
PhonePattern ==
    << Optional({ "+" }), Optional(Digits \ { "0" }), Optional({ "-", " ", "." }),
       Optional({ "(" }), Times(Digits, 3, 3), Optional({ ")" }),
       Optional({ "-", " ", "." }), Times(Digits, 3, 3),
       Optional({ "-", " ", "." }), Times(Digits, 4, 4) >>

\* line 103: linkedin\.com/in/[\w\-]+
LinkedinPattern ==
    Literal(Chars("linkedin.com/in/")) \o << AtLeast(WordChars \cup { "-" }, 1) >>

\* line 109: github\.com/[\w\-]+
GithubPattern ==
    Literal(Chars("github.com/")) \o << AtLeast(WordChars \cup { "-" }, 1) >>

\* re.search(email pattern, line).group(), <<>> if there is no match
email_match(line) ==
    Group(line, re_search(EmailPattern, LineChars(line)), FALSE)

\* re.search(phone pattern, line).group()
phone_match(line) ==
    Group(line, re_search(PhonePattern, LineChars(line)), FALSE)

\* lines 102-105: re.search(r"linkedin\.com/in/[\w\-]+", line.lower()).group()
\* if "linkedin" in line.lower()
linkedin_match(line) ==
    LET s == LowerChars(LineChars(line)) IN
    IF Contains(s, Chars("linkedin"))
    THEN Group(line, re_search(LinkedinPattern, s), TRUE)
    ELSE << >>

\* lines 108-111: re.search(r"github\.com/[\w\-]+", line.lower()).group()
\* if "github" in line.lower()
github_match(line) ==
    LET s == LowerChars(LineChars(line)) IN
    IF Contains(s, Chars("github"))
    THEN Group(line, re_search(GithubPattern, s), TRUE)
    ELSE << >>

\* line 119: any(x in line.lower()
\*               for x in ["@", "phone", "email", "linkedin", "github"])
HasContactWord(line) ==
    LET s == LowerChars(LineChars(line)) IN
    \E word \in { "@", "phone", "email", "linkedin", "github" } :
        Contains(s, Chars(word))

\* len(line.split()): the maximal runs of tokens that are no blanks
SplitCount(line) ==
    Cardinality({ i \in 1..Len(line) :
                    line[i] # " " /\ (i = 1 \/ line[i - 1] = " ") })

\* lines 114-122 for a name of any number of words
NameLike_AnyLength(line) ==
    /\ line # <<>>
    /\ ~HasContactWord(line)

\* lines 114-122: the line may serve as the name
NameLike(line) ==
    /\ line # <<>>
    /\ ~HasContactWord(line)
    /\ SplitCount(line) <= 4

\* lines 86-122 for a loop in which a later match replaces an earlier one
ScanLine_LastWins(contact_info, raw_line) ==
    LET line == strip(raw_line) IN
    [ name |-> IF contact_info.name = <<>> /\ NameLike(line)
               THEN line ELSE contact_info.name,
      email |-> IF email_match(line) # <<>>
                THEN email_match(line) ELSE contact_info.email,
      phone |-> IF phone_match(line) # <<>>
                THEN phone_match(line) ELSE contact_info.phone,
      linkedin |-> IF linkedin_match(line) # <<>>
                   THEN linkedin_match(line) ELSE contact_info.linkedin,
      github |-> IF github_match(line) # <<>>
                 THEN github_match(line) ELSE contact_info.github,
      location |-> contact_info.location ]

\* lines 86-122: one turn of the loop, on the line as it stands in the text
ScanLine(contact_info, raw_line) ==
    LET line == strip(raw_line)
        found_email == email_match(line)
        found_phone == phone_match(line)
    IN
    [ name |-> IF contact_info.name = <<>> /\ NameLike(line)
               THEN line ELSE contact_info.name,
      email |-> IF contact_info.email = <<>> /\ found_email # <<>>
                THEN found_email ELSE contact_info.email,
      phone |-> IF contact_info.phone = <<>> /\ found_phone # <<>>
                THEN found_phone ELSE contact_info.phone,
      linkedin |-> IF contact_info.linkedin = <<>>
                   THEN linkedin_match(line) ELSE contact_info.linkedin,
      github |-> IF contact_info.github = <<>>
                 THEN github_match(line) ELSE contact_info.github,
      location |-> contact_info.location ]

RECURSIVE ScanLines(_, _, _)
ScanLines(lines, i, contact_info) ==
    IF i > Len(lines) THEN contact_info
    ELSE ScanLines(lines, i + 1, ScanLine(contact_info, lines[i]))

\* line 84 for a scan of the whole text
FirstLines_All(resume_text) == resume_text

\* line 84: resume_text.split("\n")[:10]
FirstLines(resume_text) ==
    SubSeq(resume_text, 1, IF Len(resume_text) < ScanLimit
                           THEN Len(resume_text) ELSE ScanLimit)

\* lines 65-124
extract_contact_info(resume_text) ==
    ScanLines(FirstLines(resume_text), 1,
              [name |-> <<>>, email |-> <<>>, phone |-> <<>>,
               linkedin |-> <<>>, github |-> <<>>, location |-> <<>>])

\* the lines the contact extractor is exercised on: a name, a line with an
\* e-mail address and a phone number, another address, two profile links,
\* an empty line, a line of five words, a name between blanks
ContactLines ==
    { <<"Jane", " ", "Doe">>, <<"jane@x.org", " ", "555-123-4567">>,
      <<"bob@y.com">>, <<"LinkedIn.com/in/Jane", " ", "github.com/jane">>,
      <<>>,
      <<"Senior", " ", "Software", " ", "Engineer", " ", "at", " ", "Acme">>,
      <<" ", "Bob", " ">> }

\* the lines that may stand after the scanned ones: none, or one
Tails == SeqsUpTo(ContactLines, 1)

\* resume texts: up to MaxHead lines of contact details, then empty lines
\* up to about the scan limit, then the tail
ContactTexts ==
    { head \o [i \in 1..gap |-> <<>>] \o tail :
        head \in SeqsUpTo(ContactLines, MaxHead),
        gap \in {0} \cup (ScanLimit - MaxHead - 1)..ScanLimit,
        tail \in Tails } \ { <<>> }

ExtractContactInfo ==
    /\ scenario = "contact"
    /\ output = None
    /\ output' = Some(extract_contact_info(input))
    /\ UNCHANGED << compile_vars, simple, input, config_data, config_file, last_call >>

InitContact == InitFormatter("contact", ContactTexts)

NextContact == ExtractContactInfo

SpecContact == InitContact /\ [][NextContact]_vars

\* ------------------------------------------------ _format_skills_section
\* sep.join(parts) for a separator and parts that are token sequences
RECURSIVE JoinTokens(_, _)
JoinTokens(sep, parts) ==
    IF parts = <<>> THEN <<>>
    ELSE IF Len(parts) = 1 THEN parts[1]
    ELSE parts[1] \o sep \o JoinTokens(sep, Tail(parts))

\* line.split(sep) for a separator of one token
RECURSIVE SplitOn(_, _)
SplitOn(line, sep) ==
    LET hits == { j \in 1..Len(line) : line[j] = sep }
        i == IF hits = {} THEN 0 ELSE CHOOSE j \in hits : \A h \in hits : j <= h
    IN
    IF i = 0 THEN << line >>
    ELSE << SubSeq(line, 1, i - 1) >> \o SplitOn(SubSeq(line, i + 1, Len(line)), sep)

\* line 345: [line.strip() for line in lines if line.strip()]
clean_lines(text) ==
    SelectSeq([i \in 1..Len(text) |-> strip(text[i])],
              LAMBDA line : line # <<>>)

\* lines 350-351 for a join that keeps the empty tokens
EmphasizedSkills_KeepEmpty(line) ==
    LET skills == [i \in 1..Len(SplitOn(line, ",")) |-> strip(SplitOn(line, ",")[i])]
    IN  JoinTokens(<<",", " ">>,
                   [i \in 1..Len(skills) |-> <<"\\textbf{">> \o skills[i] \o <<"}">>])

\* lines 350-351
EmphasizedSkills(line) ==
    LET skills == [i \in 1..Len(SplitOn(line, ",")) |-> strip(SplitOn(line, ",")[i])]
        kept == SelectSeq(skills, LAMBDA skill : skill # <<>>)
    IN  JoinTokens(<<",", " ">>,
                   [i \in 1..Len(kept) |-> <<"\\textbf{">> \o kept[i] \o <<"}">>])

\* lines 341-354: the result is a text of one line
format_skills_section(text) ==
    LET lines == clean_lines(text) IN
    IF Len(lines) = 1 /\ Has(lines[1], ",") /\ ~Has(lines[1], ":")
    THEN << EmphasizedSkills(lines[1]) >>
    ELSE << JoinTokens(<<" ", "$\\bullet$", " ">>, lines) >>

\* the lines the skills rule is exercised on
SkillLines ==
    { <<"Python", ",", " ", "JavaScript", ",", " ", "SQL">>,
      <<"Python", ",", ",", " ", "SQL", ",">>,
      <<"Languages", ":", " ", "Python", ",", " ", "SQL">>,
      <<" ", "Python", " ">>,
      <<>>,
      <<" ", ",", " ">> }

FormatSkillsSection ==
    /\ scenario = "skills"
    /\ output = None
    /\ output' = Some(format_skills_section(input))
    /\ UNCHANGED << compile_vars, simple, input, config_data, config_file, last_call >>

InitSkills == InitFormatter("skills", TextsUpTo(SkillLines, MaxLines))

NextSkills == FormatSkillsSection

SpecSkills == InitSkills /\ [][NextSkills]_vars

\* -------------------------------------------------- styles and templates
\* lines 6-12 of both modules: the values of the enumeration LaTeXStyle
LaTeXStyle == { "modern", "classic", "minimal", "academic" }

\* resume_formatter.py lines 22-62: the templates, by style value
LATEX_TEMPLATES ==
    << [key |-> "modern",
         value |->
           [documentclass |-> "\\documentclass[11pt,a4paper]{article}",
            packages |->
              << "\\usepackage[utf8]{inputenc}",
                 "\\usepackage[T1]{fontenc}",
                 "\\usepackage{geometry}",
                 "\\usepackage{titlesec}",
                 "\\usepackage{enumitem}",
                 "\\usepackage{hyperref}",
                 "\\usepackage{xcolor}",
                 "\\usepackage{fontawesome5}" >>,
            geometry |-> "\\geometry{top=1in, bottom=1in, left=0.75in, right=0.75in}",
            colors |-> "\\definecolor{primarycolor}{RGB}{0, 102, 204}",
            section_format |->
              "\\titleformat{\\section}{\\large\\bfseries\\color{primarycolor}}{}{0em}{}[\\titlerule]"]],
       [key |-> "classic",
         value |->
           [documentclass |-> "\\documentclass[11pt,a4paper]{article}",
            packages |->
              << "\\usepackage[utf8]{inputenc}",
                 "\\usepackage[T1]{fontenc}",
                 "\\usepackage{geometry}",
                 "\\usepackage{enumitem}" >>,
            geometry |-> "\\geometry{top=1in, bottom=1in, left=1in, right=1in}",
            colors |-> "",
            section_format |->
              ""]],
       [key |-> "minimal",
         value |->
           [documentclass |-> "\\documentclass[10pt,a4paper]{article}",
            packages |->
              << "\\usepackage[utf8]{inputenc}",
                 "\\usepackage{geometry}",
                 "\\usepackage{enumitem}" >>,
            geometry |-> "\\geometry{top=0.75in, bottom=0.75in, left=0.75in, right=0.75in}",
            colors |-> "",
            section_format |->
              "\\renewcommand{\\section}[1]{\\vspace{0.5em}\\textbf{\\large #1}\\vspace{0.25em}\\hrule\\vspace{0.25em}}"]] >>

\* document_styler.py lines 21-61
DocumentStyler_LATEX_TEMPLATES ==
    << [key |-> "modern",
         value |->
           [documentclass |-> "\\documentclass[11pt,a4paper]{article}",
            packages |->
              << "\\usepackage[utf8]{inputenc}",
                 "\\usepackage[T1]{fontenc}",
                 "\\usepackage{geometry}",
                 "\\usepackage{titlesec}",
                 "\\usepackage{enumitem}",
                 "\\usepackage{hyperref}",
                 "\\usepackage{xcolor}",
                 "\\usepackage{fontawesome5}" >>,
            geometry |-> "\\geometry{top=1in, bottom=1in, left=0.75in, right=0.75in}",
            colors |-> "\\definecolor{primarycolor}{RGB}{0, 102, 204}",
            section_format |->
              "\\titleformat{\\section}{\\large\\bfseries\\color{primarycolor}}{}{0em}{}[\\titlerule]"]],
       [key |-> "classic",
         value |->
           [documentclass |-> "\\documentclass[11pt,a4paper]{article}",
            packages |->
              << "\\usepackage[utf8]{inputenc}",
                 "\\usepackage[T1]{fontenc}",
                 "\\usepackage{geometry}",
                 "\\usepackage{enumitem}" >>,
            geometry |-> "\\geometry{top=1in, bottom=1in, left=1in, right=1in}",
            colors |-> "",
            section_format |->
              ""]],
       [key |-> "minimal",
         value |->
           [documentclass |-> "\\documentclass[10pt,a4paper]{article}",
            packages |->
              << "\\usepackage[utf8]{inputenc}",
                 "\\usepackage{geometry}",
                 "\\usepackage{enumitem}" >>,
            geometry |-> "\\geometry{top=0.75in, bottom=0.75in, left=0.75in, right=0.75in}",
            colors |-> "",
            section_format |->
              "\\renewcommand{\\section}[1]{\\vspace{0.5em}\\textbf{\\large #1}\\vspace{0.25em}\\hrule\\vspace{0.25em}]}"]] >>

\* a line that holds the one token t, the empty line for t = ""
LineOf(t) == IF t = "" THEN <<>> ELSE << t >>

\* the header lines both generate_latex_header build from a template
\* (resume_formatter.py lines 200-231, document_styler.py lines 104-135)
header_parts(template) ==
    << LineOf(template.documentclass), <<>> >>
    \o [i \in 1..Len(template.packages) |-> LineOf(template.packages[i])]
    \o << <<>>, LineOf(template.geometry), <<>> >>
    \o (IF template.colors # "" THEN << LineOf(template.colors), <<>> >> ELSE <<>>)
    \o (IF template.section_format # ""
        THEN << LineOf(template.section_format), <<>> >> ELSE <<>>)
    \o << <<"\\setlength{\\parindent}{0pt}">>, <<"\\setlength{\\parskip}{0.5em}">>,
          <<>>, <<"\\begin{document}">>, <<>> >>

\* resume_formatter.py lines 233-257: the name block and the contact line
contact_parts(contact_info) ==
    SelectSeq(<< contact_info.email, contact_info.phone, contact_info.linkedin,
                 contact_info.github >>, LAMBDA part : part # <<>>)

contact_block(contact_info, style) ==
    (IF contact_info.name # <<>>
     THEN << IF style = "modern"
             THEN <<"\\centerline{\\huge\\textbf{">> \o contact_info.name \o <<"}", "}">>
             ELSE <<"\\begin{center}\\textbf{\\Large ">> \o contact_info.name
                  \o <<"}", "\\end{center}">>,
             <<>> >>
     ELSE <<>>)
    \o (IF contact_parts(contact_info) # <<>>
        THEN << <<"\\centerline{">>
                \o JoinTokens(<<" ", "$\\bullet$", " ">>, contact_parts(contact_info))
                \o <<"}">>,
                <<>> >>
        ELSE <<>>)

\* resume_formatter.py line 198, document_styler.py line 102: TEMPLATES[style]
TemplateOf(templates, style) ==
    IF DictHas(templates, style) THEN Return(DictGet(templates, style))
    ELSE Raise("KeyError")

\* resume_formatter.py lines 185-259
generate_latex_header(contact_info, style) ==
    LET template == TemplateOf(LATEX_TEMPLATES, style) IN
    IF template.raised # "none" THEN template
    ELSE Return(header_parts(template.value) \o contact_block(contact_info, style))

\* document_styler.py lines 89-137
DocumentStyler_generate_latex_header(style) ==
    LET template == TemplateOf(DocumentStyler_LATEX_TEMPLATES, style) IN
    IF template.raised # "none" THEN template
    ELSE Return(header_parts(template.value))

\* document_styler.py lines 63-87
style_document(text, style) ==
    LET header == DocumentStyler_generate_latex_header(style) IN
    IF header.raised # "none" THEN header
    ELSE Return(join_lines(<< header.value, text, <<<<"\\end{document}">>>> >>))

\* ------------------------------------------------- format_section_content
\* the token that stands for the bullet character U+2022
BulletGlyph == "<U+2022>"

\* re.search(r"\d{4}", line)
FourDigits(line) ==
    re_search(<< Times(Digits, 4, 4) >>, LineChars(line)).start # 0

\* lines 307 and 319: "|" in line or re.search(r"\d{4}", line)
JobHeaderLike(line) ==
    Contains(LineChars(line), << "|" >>) \/ FourDigits(line)

\* line.startswith(c) for a mark c of one character
StartsWith(line, c) == line # <<>> /\ line[1] = c

\* f"\\item {line[1:].strip()}"
ItemOf(line) == <<"\\item", " ">> \o strip(Tail(line))

\* lines 311-321: the index at which the inner loop over the lines after a
\* job header stops
RECURSIVE BulletsEnd(_, _)
BulletsEnd(lines, i) ==
    IF i > Len(lines) THEN i
    ELSE LET next_line == strip(lines[i]) IN
         IF StartsWith(next_line, BulletGlyph) THEN BulletsEnd(lines, i + 1)
         ELSE IF next_line # <<>> /\ ~JobHeaderLike(next_line)
              THEN BulletsEnd(lines, i + 1)
              ELSE i

\* lines 313-319: the list item made of one line after a job header
BulletPoint(next_line) ==
    IF StartsWith(next_line, BulletGlyph) THEN ItemOf(next_line)
    ELSE <<"\\item", " ">> \o next_line

\* lines 298-337: the loop from line i on
RECURSIVE ExperienceLines(_, _)
ExperienceLines(lines, i) ==
    IF i > Len(lines) THEN <<>>
    ELSE LET line == strip(lines[i]) IN
         IF line = <<>> THEN ExperienceLines(lines, i + 1)
         ELSE IF JobHeaderLike(line) /\ ~StartsWith(line, BulletGlyph)
         THEN LET stop == BulletsEnd(lines, i + 1)
                  bullet_points == [k \in 1..(stop - i - 1) |->
                                        BulletPoint(strip(lines[i + k]))]
              IN  << <<"\\textbf{">> \o line \o <<"}">> >>
                  \o (IF bullet_points # <<>>
                      THEN << <<"\\begin{itemize}[leftmargin=1em]">> >>
                           \o bullet_points \o << <<"\\end{itemize}">> >>
                      ELSE <<>>)
                  \o ExperienceLines(lines, stop)
         ELSE << IF StartsWith(line, BulletGlyph) THEN ItemOf(line) ELSE line >>
              \o ExperienceLines(lines, i + 1)

\* lines 292-339
format_experience_section(text) == text_of(ExperienceLines(text, 1))

\* lines 366-369: the line names a degree or an institution
EducationWord(line) ==
    \E word \in { "bachelor", "master", "phd", "university", "college" } :
        Contains(LowerChars(LineChars(line)), Chars(word))

\* lines 356-374: the lines are joined by "\n\n"
format_education_section(text) ==
    LET lines == clean_lines(text)
        formatted_lines ==
            [i \in 1..Len(lines) |->
                IF EducationWord(lines[i])
                THEN <<"\\textbf{">> \o lines[i] \o <<"}">>
                ELSE lines[i]]
    IN  IF formatted_lines = <<>> THEN EmptyText
        ELSE JoinTokens(<< <<>> >>, [i \in 1..Len(formatted_lines) |-> << formatted_lines[i] >>])

\* lines 388-401 for a loop that leaves the list open over a blank line
RECURSIVE GenericLines_BlankKeepsList(_, _, _)
GenericLines_BlankKeepsList(lines, i, in_itemize) ==
    IF i > Len(lines)
    THEN IF in_itemize THEN << <<"\\end{itemize}">> >> ELSE <<>>
    ELSE LET line == strip(lines[i]) IN
         IF StartsWith(line, BulletGlyph) \/ StartsWith(line, "-")
         THEN (IF ~in_itemize THEN << <<"\\begin{itemize}[leftmargin=1em]">> >> ELSE <<>>)
              \o << ItemOf(line) >> \o GenericLines_BlankKeepsList(lines, i + 1, TRUE)
         ELSE IF line = <<>>
              THEN GenericLines_BlankKeepsList(lines, i + 1, in_itemize)
              ELSE (IF in_itemize THEN << <<"\\end{itemize}">> >> ELSE <<>>)
                   \o << line >>
                   \o GenericLines_BlankKeepsList(lines, i + 1, FALSE)

\* lines 388-401: the loop from line i on, with the flag in_itemize
RECURSIVE GenericLines(_, _, _)
GenericLines(lines, i, in_itemize) ==
    IF i > Len(lines)
    THEN IF in_itemize THEN << <<"\\end{itemize}">> >> ELSE <<>>
    ELSE LET line == strip(lines[i]) IN
         IF StartsWith(line, BulletGlyph) \/ StartsWith(line, "-")
         THEN (IF ~in_itemize THEN << <<"\\begin{itemize}[leftmargin=1em]">> >> ELSE <<>>)
              \o << ItemOf(line) >> \o GenericLines(lines, i + 1, TRUE)
         ELSE (IF in_itemize THEN << <<"\\end{itemize}">> >> ELSE <<>>)
              \o (IF line # <<>> THEN << line >> ELSE <<>>)
              \o GenericLines(lines, i + 1, FALSE)

\* lines 381-406 (and 376-379: the projects rule is the generic one)
format_generic_section(text) == text_of(GenericLines(text, 1, FALSE))

\* lines 261-290
format_section_content(section_name, text) ==
    IF strip_text(text) = EmptyText THEN EmptyText
    ELSE IF section_name = "experience" THEN format_experience_section(strip_text(text))
    ELSE IF section_name = "skills" THEN format_skills_section(strip_text(text))
    ELSE IF section_name = "education" THEN format_education_section(strip_text(text))
    ELSE format_generic_section(strip_text(text))

\* the section texts the generic and the experience rule are exercised on:
\* bullet lines with either mark, one of them between blanks, a job header,
\* a plain line and an empty line
RuleLines ==
    { << BulletGlyph, " ", "Built" >>, << "-", " ", "Python" >>,
      << " ", BulletGlyph, "SQL", " " >>, << "Acme", " ", "|", " ", "2020" >>,
      << "Python" >>, << >> }

FormatGenericSection ==
    /\ scenario = "rules"
    /\ output = None
    /\ output' = Some([rule |-> "generic", text |-> format_generic_section(input)])
    /\ UNCHANGED << compile_vars, simple, input, config_data, config_file, last_call >>

FormatExperienceSection ==
    /\ scenario = "rules"
    /\ output = None
    /\ output' = Some([rule |-> "experience", text |-> format_experience_section(input)])
    /\ UNCHANGED << compile_vars, simple, input, config_data, config_file, last_call >>

InitRules == InitFormatter("rules", TextsUpTo(RuleLines, MaxLines))

NextRules == FormatGenericSection \/ FormatExperienceSection

SpecRules == InitRules /\ [][NextRules]_vars

\* ------------------------------------------------------------ format_resume
\* lines 437-446 for an order that puts the skills first
section_order_SkillsFirst ==
    << "skills", "summary", "experience", "projects", "education",
       "certifications", "achievements", "publications" >>

\* lines 437-446
section_order ==
    << "summary", "experience", "skills", "projects", "education",
       "certifications", "achievements", "publications" >>

\* section_name.replace("_", " ").title(), as the tokens of the title
Titleize(section_name) ==
    CASE section_name = "summary" -> <<"Summary">>
      [] section_name = "experience" -> <<"Experience">>
      [] section_name = "skills" -> <<"Skills">>
      [] section_name = "projects" -> <<"Projects">>
      [] section_name = "education" -> <<"Education">>
      [] section_name = "certifications" -> <<"Certifications">>
      [] section_name = "achievements" -> <<"Achievements">>
      [] section_name = "publications" -> <<"Publications">>
      [] section_name = "header" -> <<"Header">>
      [] section_name = "volunteer_work" -> <<"Volunteer", " ", "Work">>
      [] section_name = "awards" -> <<"Awards">>

\* lines 452-460 and 466-471: what one section adds to latex_content
SectionParts(section_name, text) ==
    << << <<"\\section{">> \o Titleize(section_name) \o <<"}">> >> >>
    \o (IF format_section_content(section_name, text) # EmptyText
        THEN << format_section_content(section_name, text), EmptyText >>
        ELSE <<>>)

\* lines 449-460: the sections of the order list, from entry i on
RECURSIVE OrderedParts(_, _)
OrderedParts(sections, i) ==
    IF i > Len(section_order) THEN <<>>
    ELSE (IF DictHas(sections, section_order[i])
             /\ strip_text(DictGet(sections, section_order[i])) # EmptyText
          THEN SectionParts(section_order[i], DictGet(sections, section_order[i]))
          ELSE <<>>)
         \o OrderedParts(sections, i + 1)

\* lines 464-471: the remaining sections, from entry i of the map on
RECURSIVE RemainingParts(_, _)
RemainingParts(sections, i) ==
    IF i > Len(sections) THEN <<>>
    ELSE (IF ~(\E j \in 1..Len(section_order) : section_order[j] = sections[i].key)
             /\ sections[i].key # "header"
             /\ strip_text(sections[i].value) # EmptyText
          THEN SectionParts(sections[i].key, sections[i].value)
          ELSE <<>>)
         \o RemainingParts(sections, i + 1)

\* lines 434-476: the document built from the header and the section map
assemble(header, sections) ==
    join_lines(<< header >> \o OrderedParts(sections, 1)
               \o RemainingParts(sections, 1) \o << <<<<"\\end{document}">>>> >>)

\* lines 408-476
format_resume(resume_text, style) ==
    LET contact_info == extract_contact_info(resume_text)
        sections == parse_resume_sections(resume_text)
        header == generate_latex_header(contact_info, style)
    IN  IF header.raised # "none" THEN header
        ELSE Return(assemble(header.value, sections))

\* the lines format_resume is exercised on: a name, three headings, a
\* comma list, a bullet line, a job header and the empty line
ResumeLines ==
    { <<"Jane", " ", "Doe">>, <<"Summary">>, <<"Skills">>,
      <<" ", "EXPERIENCE", ":", " ">>, <<"Python", ",", " ", "SQL">>,
      <<"-", " ", "Python">>, <<"Acme", " ", "|", " ", "2020">>, <<>> }

\* every text in the modern style, and the texts of one line in every style
ResumeInputs ==
    { [text |-> t, style |-> "modern"] : t \in TextsUpTo(ResumeLines, MaxLines) }
    \cup { [text |-> t, style |-> st] :
            t \in TextsUpTo(ResumeLines, 1), st \in LaTeXStyle }

FormatResume ==
    /\ scenario = "resume"
    /\ output = None
    /\ output' = Some([call |-> "format_resume",
                       result |-> format_resume(input.text, input.style)])
    /\ UNCHANGED << compile_vars, simple, input, config_data, config_file, last_call >>

StyleDocument ==
    /\ scenario = "resume"
    /\ output = None
    /\ output' = Some([call |-> "style_document",
                       result |-> style_document(input.text, input.style)])
    /\ UNCHANGED << compile_vars, simple, input, config_data, config_file, last_call >>

InitResume == InitFormatter("resume", ResumeInputs)

NextResume == FormatResume \/ StyleDocument

SpecResume == InitResume /\ [][NextResume]_vars

\* --------------------------------------------------------- the Config store
\* config.py: the values of AIProvider
AIProvider == { "openai", "anthropic", "ollama", "custom" }

\* Python values held by Config._config_data, as records of one shape
PyNone == [type |-> "NoneType", str |-> "", items |-> << >>]
PyStr(s) == [type |-> "str", str |-> s, items |-> << >>]
PyDict(items) == [type |-> "dict", str |-> "", items |-> items]

\* bool(v)
Truthy(v) ==
    CASE v.type = "NoneType" -> FALSE
      [] v.type = "str" -> v.str # ""
      [] v.type = "dict" -> v.items # << >>

\* d.get(k)
DictGetOrNone(d, k) == IF DictHas(d, k) THEN DictGet(d, k) ELSE PyNone

\* json.dump: the JSON document written for a Python value
RECURSIVE json_dump(_)
json_dump(v) ==
    CASE v.type = "NoneType" -> [json |-> "null", string |-> "", members |-> << >>]
      [] v.type = "str" -> [json |-> "string", string |-> v.str, members |-> << >>]
      [] v.type = "dict" ->
            [json |-> "object", string |-> "",
             members |-> [i \in 1..Len(v.items) |->
                            [name |-> v.items[i].key,
                             value |-> json_dump(v.items[i].value)]]]

\* a file that holds no JSON document: an empty file, or the beginning of
\* a document that was not written to its end
InvalidJson == [json |-> "invalid", string |-> "", members |-> << >>]

\* what the disk does during _save_config: the file is written and protected;
\* the directory cannot be made or the file cannot be opened; the file is
\* opened, which empties it, and a write fails before the document is
\* complete; or the file is written and chmod fails
DiskOutcomes == { "saved", "unwritable", "truncated", "chmod_failed" }

\* _save_config: the file afterwards and the exception raised
save_config(file, data, disk) ==
    [file |-> IF disk = "unwritable" THEN file
              ELSE IF disk = "truncated" THEN Some(InvalidJson)
              ELSE Some(json_dump(PyDict(data))),
     raised |-> IF disk = "saved" THEN "none" ELSE "ConfigError"]

\* the dictionary set_provider stores for the provider
provider_config(provider, api_key, endpoint, model) ==
    LET base == << [key |-> "api_key", value |-> api_key],
                   [key |-> "model", value |-> model] >>
        given == IF Truthy(endpoint) THEN DictPut(base, "endpoint", endpoint) ELSE base
    IN
    IF provider = "openai" /\ ~Truthy(endpoint)
    THEN DictPut(given, "endpoint", PyStr("https://api.openai.com/v1"))
    ELSE IF provider = "anthropic" /\ ~Truthy(endpoint)
         THEN DictPut(given, "endpoint", PyStr("https://api.anthropic.com"))
         ELSE given

\* set_provider, on _config_data
set_provider(data, provider, api_key, endpoint, model) ==
    DictPut(DictPut(data, provider,
                    PyDict(provider_config(provider, api_key, endpoint, model))),
            "active_provider", PyStr(provider))

\* get_active_provider
get_active_provider(data) == DictGetOrNone(data, "active_provider")

\* list_providers
list_providers(data) ==
    SelectSeq(data, LAMBDA e : e.key # "active_provider" /\ e.value.type = "dict")

\* is_configured
is_configured(data) == Truthy(get_active_provider(data))

\* remove_provider, on _config_data; `saves` tells whether _save_config is called
remove_provider(data, provider) ==
    IF DictHas(data, provider)
    THEN LET removed == DictDel(data, provider)
         IN
         [data |-> IF DictGetOrNone(removed, "active_provider") = PyStr(provider)
                   THEN DictDel(removed, "active_provider")
                   ELSE removed,
          saves |-> TRUE]
    ELSE [data |-> data, saves |-> FALSE]

\* the arguments the calls are made with
ApiKeys == { PyStr("sk-1"), PyStr("sk-2") }
Endpoints == { PyNone, PyStr("http://localhost:11434") }
Models == { PyNone, PyStr("m-1") }
RemoveNames == AIProvider \cup { "active_provider" }

\* the settings set_provider is called with: every combination when the
\* store is watched alone, two of them when a second instance is created
Settings ==
    IF scenario = "persist"
    THEN { [api_key |-> PyStr("sk-1"), endpoint |-> PyNone, model |-> PyNone],
           [api_key |-> PyStr("sk-2"), endpoint |-> PyStr("http://localhost:11434"),
            model |-> PyStr("m-1")] }
    ELSE [api_key : ApiKeys, endpoint : Endpoints, model : Models]

\* the number of Config calls made so far
CallsMade == IF last_call = None THEN 0 ELSE Get(last_call).n

\* some Config call made so far raised ConfigError
CallsFailed == IF last_call = None THEN FALSE ELSE Get(last_call).failed

Called(op, provider, before, raised) ==
    Some([op |-> op, provider |-> provider, before |-> before, raised |-> raised,
          n |-> CallsMade + 1, failed |-> CallsFailed \/ raised # "none"])

\* json.load: the Python value read from a JSON document.  The members of
\* an object are put into the dictionary one after the other, so of the
\* members of one name the last gives the value and the first the place
RECURSIVE json_load(_)
RECURSIVE json_object(_, _, _)
json_object(members, i, d) ==
    IF i > Len(members) THEN d
    ELSE json_object(members, i + 1,
                     DictPut(d, members[i].name, json_load(members[i].value)))
json_load(j) ==
    CASE j.json = "null" -> PyNone
      [] j.json = "string" -> PyStr(j.string)
      [] j.json = "object" -> PyDict(json_object(j.members, 1, << >>))

\* _load_config: the _config_data of a Config created on the directory,
\* which is whatever value the document holds, or the ConfigError raised for
\* a file that holds no JSON document
load_config(file) ==
    IF file = None THEN Return(PyDict(<< >>))
    ELSE IF Get(file).json = "invalid" THEN Raise("ConfigError")
    ELSE Return(json_load(Get(file)))

\* get_provider_config; `provider` is PyNone for the active provider.  A
\* name that is a dictionary cannot be looked up (line 117: it has no hash)
get_provider_config(data, provider) ==
    LET provider_name == IF Truthy(provider) THEN provider ELSE get_active_provider(data)
    IN
    IF ~Truthy(provider_name)
    THEN Raise("ConfigError")
    ELSE IF provider_name.type = "dict"
    THEN Raise("TypeError")
    ELSE IF ~Truthy(DictGetOrNone(data, provider_name.str))
         THEN Raise("ConfigError")
         ELSE Return(DictGetOrNone(data, provider_name.str))

\* str(v) of a value that is not None: a string is itself, and the string
\* a dictionary gives is its repr, held as the dictionary it is the repr of
str(v) ==
    IF v.type = "dict" THEN [type |-> "str", str |-> "repr", items |-> v.items]
    ELSE v

\* get_api_key; a configuration that is no dictionary (the name stored
\* under "active_provider") has no get
get_api_key(data, provider) ==
    LET config == get_provider_config(data, provider)
    IN
    IF config.raised # "none"
    THEN Raise(config.raised)
    ELSE IF config.value.type # "dict"
    THEN Raise("AttributeError")
    ELSE IF ~Truthy(DictGetOrNone(config.value.items, "api_key"))
         THEN Raise("ConfigError")
         ELSE Return(str(DictGetOrNone(config.value.items, "api_key")))

\* get_endpoint
get_endpoint(data, provider) ==
    LET config == get_provider_config(data, provider)
    IN
    IF config.raised # "none"
    THEN Raise(config.raised)
    ELSE IF config.value.type # "dict"
    THEN Raise("AttributeError")
    ELSE Return(DictGetOrNone(config.value.items, "endpoint"))

\* get_model
get_model(data, provider) ==
    LET config == get_provider_config(data, provider)
    IN
    IF config.raised # "none"
    THEN Raise(config.raised)
    ELSE IF config.value.type # "dict"
    THEN Raise("AttributeError")
    ELSE Return(DictGetOrNone(config.value.items, "model"))

\* the runs in which the Config methods are called
ConfigRun == scenario \in { "config", "persist" }

SetProvider ==
    /\ ConfigRun
    /\ CallsMade < MaxOps
    /\ output = None
    /\ \E provider \in AIProvider, given \in Settings, disk \in DiskOutcomes :
          LET data == set_provider(config_data, provider, given.api_key,
                                   given.endpoint, given.model)
              saved == save_config(config_file, data, disk)
          IN
          /\ config_data' = data
          /\ config_file' = saved.file
          /\ last_call' = Called("set_provider", provider, config_data, saved.raised)
    /\ UNCHANGED << compile_vars, simple, input, output >>

RemoveProvider ==
    /\ ConfigRun
    /\ CallsMade < MaxOps
    /\ output = None
    /\ \E provider \in RemoveNames, disk \in DiskOutcomes :
          LET removed == remove_provider(config_data, provider)
              saved == IF removed.saves
                       THEN save_config(config_file, removed.data, disk)
                       ELSE [file |-> config_file, raised |-> "none"]
          IN
          /\ config_data' = removed.data
          /\ config_file' = saved.file
          /\ last_call' = Called("remove_provider", provider, config_data, saved.raised)
    /\ UNCHANGED << compile_vars, simple, input, output >>

\* Config(config_dir) on the same directory: the _config_data of the new
\* instance, or the ConfigError the constructor raises
NewConfig ==
    /\ scenario = "persist"
    /\ output = None
    /\ output' = Some(load_config(config_file))
    /\ UNCHANGED << compile_vars, simple, input, config_data, config_file, last_call >>

\* Config(config_dir) on a directory that holds no config.json
InitConfig == InitCalls({}, "config")

NextConfig == SetProvider \/ RemoveProvider

SpecConfig == InitConfig /\ [][NextConfig]_vars

InitPersist == InitCalls({}, "persist")

NextPersist == SetProvider \/ RemoveProvider \/ NewConfig

SpecPersist == InitPersist /\ [][NextPersist]_vars

\* ------------------------------------------------------ FileUploadSecurity
\* a filename is a sequence of characters
NameChars == { "t", "e", "x", "T", "1", ".", "_", "-", "/" }

\* the characters of [a-zA-Z0-9._-] that occur
SafeChars ==
    { "a", "c", "d", "e", "f", "l", "o", "p", "t", "u", "x", "T", "1", ".", "_", "-" }

\* str.lower, on one character
lower_char(ch) == IF ch = "T" THEN "t" ELSE ch

DEFAULT_ALLOWED_EXTENSIONS ==
    { << "p", "d", "f" >>, << "d", "o", "c" >>, << "d", "o", "c", "x" >>,
      << "t", "e", "x" >> }

\* ALLOWED_MIME_TYPES.get(extension, set())
ALLOWED_MIME_TYPES(extension) ==
    CASE extension = << "p", "d", "f" >> -> { "application/pdf" }
      [] extension = << "d", "o", "c" >> -> { "application/msword" }
      [] extension = << "d", "o", "c", "x" >> ->
            { "application/vnd.openxmlformats-officedocument.wordprocessingml.document",
              "application/vnd.ms-word.document.macroEnabled.12" }
      [] extension = << "t", "e", "x" >> ->
            { "text/plain", "application/x-tex", "text/x-tex" }
      [] OTHER -> { }

\* what the uploaded stream gives: it cannot be read, it is empty, or it has
\* a header for which magic.from_buffer answers `mime` or raises
Streams ==
    { [state |-> "unreadable", mime |-> ""], [state |-> "empty", mime |-> ""],
      [state |-> "undetectable", mime |-> ""],
      [state |-> "data", mime |-> "text/plain"],
      [state |-> "data", mime |-> "application/pdf"] }

\* str.lstrip(chars)
RECURSIVE lstrip_chars(_, _)
lstrip_chars(name, chars) ==
    IF name # << >> /\ Head(name) \in chars
    THEN lstrip_chars(Tail(name), chars)
    ELSE name

\* _secure_filename: the mutant does not strip the leading dots and underscores
secure_filename_NoStrip(filename) ==
    LET replaced == [i \in 1..Len(filename) |->
                        IF filename[i] \in SafeChars THEN filename[i] ELSE "_"]
    IN
    IF replaced = << >> THEN << "u", "p", "l", "o", "a", "d" >> ELSE replaced
secure_filename(filename) ==
    LET replaced == [i \in 1..Len(filename) |->
                        IF filename[i] \in SafeChars THEN filename[i] ELSE "_"]
        stripped == lstrip_chars(replaced, { ".", "_" })
    IN
    IF stripped = << >> THEN << "u", "p", "l", "o", "a", "d" >> ELSE stripped

\* filename.lower().split(".")[-1]
extension_of(filename) ==
    LET dots == { i \in 1..Len(filename) : filename[i] = "." }
        from == IF dots = { } THEN 1 ELSE (CHOOSE i \in dots : \A j \in dots : j <= i) + 1
    IN
    [i \in 1..(Len(filename) - from + 1) |-> lower_char(filename[from + i - 1])]

\* the exception a step of validate_file_upload raises ("none": it returns)
Passed == [raised |-> "none", message |-> ""]
Rejected(error, message) == [raised |-> error, message |-> message]

\* _validate_extension
validate_extension(filename) ==
    IF \A i \in 1..Len(filename) : filename[i] # "."
    THEN Rejected("ValidationError", "No file extension")
    ELSE IF extension_of(filename) \notin DEFAULT_ALLOWED_EXTENSIONS
         THEN Rejected("ValidationError", "Invalid file extension")
         ELSE Passed

\* _validate_mime_type
validate_mime_type(file_stream, filename) ==
    CASE file_stream.state = "unreadable" ->
            Rejected("ProcessingError", "File validation failed")
      [] file_stream.state = "empty" -> Rejected("ValidationError", "Empty file")
      [] file_stream.state = "undetectable" ->
            Rejected("ProcessingError", "File validation failed")
      [] OTHER ->
            IF /\ ALLOWED_MIME_TYPES(extension_of(filename)) # { }
               /\ file_stream.mime \notin ALLOWED_MIME_TYPES(extension_of(filename))
            THEN Rejected("ValidationError", "Invalid file type")
            ELSE Passed

\* validate_file_upload: the exception or the name returned, and whether the
\* stream was touched
validate_file_upload(file_stream, filename) ==
    LET secure_name == secure_filename(filename)
        untouched(step) == [raised |-> step.raised, message |-> step.message,
                            value |-> << >>, stream_read |-> FALSE]
    IN
    IF filename = << >>
    THEN untouched(Rejected("ValidationError", "Empty filename"))
    ELSE IF secure_name = << >>
         THEN untouched(Rejected("ValidationError", "Invalid filename"))
         ELSE IF validate_extension(secure_name).raised # "none"
              THEN untouched(validate_extension(secure_name))
              ELSE LET checked == validate_mime_type(file_stream, secure_name)
                   IN [raised |-> checked.raised, message |-> checked.message,
                       value |-> IF checked.raised = "none" THEN secure_name ELSE << >>,
                       stream_read |-> TRUE]

ValidateFileUpload ==
    /\ scenario = "upload"
    /\ output = None
    /\ \E file_stream \in Streams :
          output' = Some([secure_filename |-> secure_filename(input),
                          upload |-> validate_file_upload(file_stream, input)])
    /\ UNCHANGED << compile_vars, simple, input, config_data, config_file, last_call >>

InitUpload == InitFormatter("upload", SeqsUpTo(NameChars, MaxName))

NextUpload == ValidateFileUpload

SpecUpload == InitUpload /\ [][NextUpload]_vars

\* ------------------------------------------------------------ properties
Max(S) == CHOOSE x \in S : \A y \in S : y <= x

Started(c) ==
    pc[c] \notin {"off", "idle", "checking", "called", "no_latex", "validate", "validated"}

\* the call is inside the with block of line 175
InWith(c) ==
    pc[c] \in {"write_tex", "read_tex", "run", "read_log", "read_pdf", "exit_with"}

\* the call has built the result it is about to return, or has returned it
HasResult(c) == pc[c] \in {"exit_with", "returned"} /\ IsSome(result[c])

Returned(c) == pc[c] = "returned"

AllMarkers(src) ==
    Has(src, DocumentClass) /\ Has(src, BeginDocument) /\ Has(src, EndDocument)

\* pass n of the call ended by exit with return code zero
PassZero(c, n) == passes[c][n].kind = "exit" /\ passes[c][n].returncode = 0

\* the latest invocation of the call ended by exit with a non-zero code
LastPassNonZero(c) ==
    /\ passes[c] # <<>>
    /\ passes[c][Len(passes[c])].kind = "exit"
    /\ passes[c][Len(passes[c])].returncode # 0

LastPassTimedOut(c) ==
    passes[c] # <<>> /\ passes[c][Len(passes[c])].kind = "timeout"

\* what reading document.log of the call's directory gives now ("" if absent)
LogFileText(c) ==
    IF temp_dir[c] # 0 /\ fs[temp_dir[c]].exists /\ IsSome(fs[temp_dir[c]].log)
    THEN DecodeIgnore(Get(fs[temp_dir[c]].log))
    ELSE <<>>

\* the log of source src as it reads after the first k invocations of hist
LogAfter(src, hist, k) ==
    LET writers == { j \in 1..k : hist[j].log } IN
    IF writers = {} THEN <<>>
    ELSE DecodeIgnore(LogOf(Utf8(src), Max(writers)))

\* the result of a call that runs alone, in a directory of its own, on
\* source src with flag validating, when its invocations end as hist says
Alone(src, validating, hist) ==
    LET v == validate_latex_structure(src)
        tex == b64encode(Utf8(src))
        n == Len(hist)
    IN  IF validating /\ ~v.is_valid THEN ValidationFailure(v)
        ELSE IF hist[n].kind = "timeout"
             THEN TimedOut(Some(tex), Some(LogAfter(src, hist, n - 1)))
        ELSE IF hist[n].returncode # 0
             THEN PassFailure(tex, LogAfter(src, hist, n), n, hist[n].stderr)
        ELSE IF \E j \in 1..n : hist[j].pdf
             THEN Success(tex, b64encode(PdfOf(Utf8(src))), LogAfter(src, hist, n))
        ELSE MissingPdf(tex, LogAfter(src, hist, n))

\* C1: a call with validation enabled on a source that lacks a required
\* element has returned as soon as it is past the validation, with a failure
\* whose message is "Invalid LaTeX structure: " and the validator's missing
\* elements joined by "; ", with an empty source encoding and log, without
\* any compiler invocation and without any directory having been created.
C1_ValidationFailureIsImmediate ==
    \A c \in Calls :
        (Started(c) /\ validate_structure[c] /\ ~AllMarkers(content[c])) =>
            /\ Returned(c)
            /\ IsSome(result[c]) /\ IsSome(validation[c])
            /\ Get(validation[c]).missing_elements # <<>>
            /\ Get(result[c]) =
                 [success |-> FALSE, tex_base64 |-> <<>>, pdf_base64 |-> None,
                  log_output |-> <<>>,
                  error_message |->
                     Some(<<"Invalid LaTeX structure", ": ">>
                          \o Join("; ", Get(validation[c]).missing_elements))]
            /\ passes[c] = <<>>
            /\ temp_dir[c] = 0
            /\ \A d \in DirNames : fs[d] = NoDir

C1_Witness ==
    \E c \in Calls :
        /\ Returned(c) /\ validate_structure[c]
        /\ content[c] = <<DocumentClass, PlainText>>
        /\ Len(Get(result[c]).error_message[1]) = 5

\* C2: the compiler is invoked at most twice; every invocation but the
\* latest ended by exit with code zero (so pass 2 starts only after pass 1
\* returned zero and nothing follows a non-zero pass); a successful result
\* comes from exactly two invocations that both returned zero.
C2_TwoPassesNoRetry ==
    \A c \in Calls :
        /\ Len(passes[c]) <= 2
        /\ \A i \in 1..(Len(passes[c]) - 1) : PassZero(c, i)
        /\ (pc[c] = "run" /\ pass_num[c] = 2) =>
                (Len(passes[c]) = 1 /\ PassZero(c, 1))
        /\ (HasResult(c) /\ Get(result[c]).success) =>
                (Len(passes[c]) = 2 /\ PassZero(c, 1) /\ PassZero(c, 2))

C2_Witness ==
    \E c \in Calls :
        /\ Returned(c) /\ Get(result[c]).success
        /\ Len(passes[c]) = 2

\* C3: once a call that created a directory has returned its result, on
\* whichever path, the directory and its files no longer exist.
C3_ScratchRemovedOnReturn ==
    \A c \in Calls :
        (Returned(c) /\ temp_dir[c] # 0) => fs[temp_dir[c]] = NoDir

\* a call that returned after a timeout in pass 2, pass 1 having left a PDF
C3_Witness ==
    \E c \in Calls :
        /\ Returned(c) /\ temp_dir[c] # 0
        /\ Len(passes[c]) = 2 /\ passes[c][1].pdf /\ passes[c][1].log
        /\ LastPassTimedOut(c)

\* C4 (as claimed): compile_latex never propagates an exception.
C4_NeverPropagates == \A c \in Calls : pc[c] # "raised"

\* C5: when the latest invocation, pass N, ended with a non-zero code and
\* the log could be read, the result is a failure with no PDF encoding, the
\* base64 of the submitted source, the log file as it reads after pass N,
\* and the message "LaTeX compilation error on pass N: " and the stderr.
C5_PassFailureResult ==
    \A c \in Calls :
        (HasResult(c) /\ LastPassNonZero(c) /\ raised_at[c] = "none") =>
            LET n == Len(passes[c]) r == Get(result[c]) IN
            /\ r.success = FALSE
            /\ r.pdf_base64 = None
            /\ r.tex_base64 = b64encode(Utf8(content[c]))
            /\ r.log_output = LogAfter(content[c], passes[c], n)
            /\ pc[c] = "exit_with" => r.log_output = LogFileText(c)
            /\ r.error_message =
                 Some(<<"LaTeX compilation error on pass ", PassName(n), ": ">>
                      \o passes[c][n].stderr)

\* pass 2 failed, with something on stderr, after both passes wrote the log
C5_Witness ==
    \E c \in Calls :
        /\ Returned(c) /\ LastPassNonZero(c) /\ raised_at[c] = "none"
        /\ Len(passes[c]) = 2
        /\ passes[c][1].log /\ passes[c][2].log
        /\ passes[c][2].stderr # <<>>
        /\ content[c] # <<>>

\* C6: when the latest invocation timed out, the result is a failure with
\* the timeout message and no PDF encoding, and it keeps the encoding of
\* the source taken before pass 1.
C6_TimeoutResult ==
    \A c \in Calls :
        (HasResult(c) /\ LastPassTimedOut(c)) =>
            LET r == Get(result[c]) IN
            /\ r.success = FALSE
            /\ r.pdf_base64 = None
            /\ r.error_message =
                 Some(<<"LaTeX compilation timed out after 60 seconds">>)
            /\ r.tex_base64 = b64encode(Utf8(content[c]))

\* pass 2 timed out while the PDF of pass 1 is in the directory
C6_Witness ==
    \E c \in Calls :
        /\ pc[c] = "exit_with" /\ IsSome(result[c]) /\ LastPassTimedOut(c)
        /\ Len(passes[c]) = 2
        /\ IsSome(fs[temp_dir[c]].pdf)
        /\ content[c] # <<>>

\* C7: when both passes returned zero and there is no PDF file, the result
\* is a failure whose message is the missing-PDF message, which does not
\* begin like the message of a failed pass, with the encoding of the source
\* and the log as it reads after pass 2.
C7_MissingPdfResult ==
    \A c \in Calls :
        ( /\ HasResult(c) /\ raised_at[c] = "none"
          /\ Len(passes[c]) = 2 /\ PassZero(c, 1) /\ PassZero(c, 2)
          /\ ~passes[c][1].pdf /\ ~passes[c][2].pdf ) =>
            LET r == Get(result[c]) IN
            /\ r.success = FALSE
            /\ r.pdf_base64 = None
            /\ r.error_message =
                 Some(<<"PDF file was not generated despite successful compilation">>)
            /\ \A n \in 1..2, e \in Stderrs :
                 /\ r.error_message # PassFailure(<<>>, <<>>, n, e).error_message
                 /\ Get(r.error_message)[1] # Get(PassFailure(<<>>, <<>>, n, e).error_message)[1]
            /\ r.tex_base64 = b64encode(Utf8(content[c]))
            /\ r.log_output = LogAfter(content[c], passes[c], 2)
            /\ pc[c] = "exit_with" => r.log_output = LogFileText(c)

C7_Witness ==
    \E c \in Calls :
        /\ Returned(c) /\ raised_at[c] = "none"
        /\ Len(passes[c]) = 2 /\ PassZero(c, 1) /\ PassZero(c, 2)
        /\ ~passes[c][1].pdf /\ ~passes[c][2].pdf
        /\ passes[c][2].log
        /\ AllMarkers(content[c])

\* C8: a call with validation disabled on a source that lacks a required
\* element never runs the validator nor returns the validation failure: it
\* goes on to create its directory, a call that returned has invoked the
\* compiler unless writing or reading back the source raised, and when the
\* latest pass N ended with a non-zero code the failure names pass N.
C8_NoValidationStillCompiles ==
    \A c \in Calls :
        (Started(c) /\ ~validate_structure[c] /\ ~AllMarkers(content[c])) =>
            /\ validation[c] = None
            /\ pc[c] = "mkdtemp" \/ temp_dir[c] # 0 \/ raised_at[c] = "mkdtemp"
            /\ (IsSome(result[c]) /\ IsSome(Get(result[c]).error_message)) =>
                 Get(Get(result[c]).error_message)[1] # "Invalid LaTeX structure"
            /\ Returned(c) =>
                 (Len(passes[c]) >= 1 \/ raised_at[c] \in {"write_tex", "read_tex"})
            /\ (HasResult(c) /\ LastPassNonZero(c) /\ raised_at[c] = "none") =>
                 SubSeq(Get(Get(result[c]).error_message), 1, 2) =
                    <<"LaTeX compilation error on pass ", PassName(Len(passes[c]))>>

C8_Witness ==
    \E c \in Calls :
        /\ Returned(c) /\ ~validate_structure[c]
        /\ content[c] = <<BeginDocument, PlainText>>
        /\ Len(passes[c]) = 1 /\ LastPassNonZero(c) /\ raised_at[c] = "none"

\* C9: calls in progress together work in different directories, each
\* directory holds only files made from the source of its own call, and
\* every call returns what it would return running alone on its source.
C9_ConcurrentCallsIsolated ==
    /\ \A c1, c2 \in Calls :
            (c1 # c2 /\ InWith(c1) /\ InWith(c2)) => temp_dir[c1] # temp_dir[c2]
    /\ \A c \in Calls : InWith(c) =>
            LET dir == fs[temp_dir[c]] bytes == Utf8(content[c]) IN
            /\ dir.exists
            /\ dir.tex \in {None, Some(bytes)}
            /\ dir.log \in {None, Some(LogOf(bytes, 1)), Some(LogOf(bytes, 2))}
            /\ dir.pdf \in {None, Some(PdfOf(bytes))}
    /\ \A c \in Calls : HasResult(c) =>
            Get(result[c]) = Alone(content[c], validate_structure[c], passes[c])

\* two calls on different sources, both through both passes at the same time
C9_Witness ==
    /\ pc[1] = "read_pdf" /\ pc[2] = "read_pdf"
    /\ content[1] # content[2]
    /\ IsSome(fs[temp_dir[1]].pdf) /\ IsSome(fs[temp_dir[2]].pdf)

\* C10: is_valid is true exactly when missing_elements is empty, which is
\* exactly when the three required markers are all present, whatever the
\* warnings are.
C10_ValidIffNothingMissing ==
    \A c \in Calls : IsSome(validation[c]) =>
        LET v == Get(validation[c]) IN
        /\ v.is_valid = (v.missing_elements = <<>>)
        /\ v.is_valid = AllMarkers(content[c])

\* a source with all three markers that draws warnings
C10_Witness ==
    \E c \in Calls :
        /\ pc[c] = "validated"
        /\ Get(validation[c]).is_valid
        /\ Len(Get(validation[c]).warnings) >= 2

\* the source with one more token tok put in after its first p tokens
InsertAt(src, p, tok) ==
    SubSeq(src, 1, p) \o <<tok>> \o SubSeq(src, p + 1, Len(src))

\* C11: missing_elements holds one entry for each absent required marker
\* and none for a present one, in the order class declaration, document
\* begin, document end; a source that lacks only the document end gets
\* exactly the entry of the end marker and is invalid; and putting one more
\* document begin anywhere into a source that has one gives a result with
\* the duplicate-begin warning and the same is_valid and missing_elements.
C11_OneEntryPerAbsentMarker ==
    \A c \in Calls : IsSome(validation[c]) =>
        LET v == Get(validation[c])
            src == content[c]
            entry(tok, text) == IF Has(src, tok) THEN <<>> ELSE <<text>>
        IN
        /\ v.missing_elements =
                entry(DocumentClass,
                      "Missing Document class declaration (\\\\documentclass)")
                \o entry(BeginDocument,
                         "Missing Document begin (\\\\begin{document})")
                \o entry(EndDocument,
                         "Missing Document end (\\\\end{document})")
        /\ (Has(src, DocumentClass) /\ Has(src, BeginDocument)
                /\ ~Has(src, EndDocument)) =>
                /\ ~v.is_valid
                /\ v.missing_elements =
                        <<"Missing Document end (\\\\end{document})">>
        /\ Has(src, BeginDocument) =>
                \A p \in 0..Len(src) :
                    LET w == validate_latex_structure(InsertAt(src, p, BeginDocument))
                    IN  /\ w.is_valid = v.is_valid
                        /\ w.missing_elements = v.missing_elements
                        /\ \E i \in 1..Len(w.warnings) :
                                w.warnings[i] = "Multiple document beginnings detected"

\* a source with the class declaration and a single document begin but no
\* document end, validated: one entry, and no duplicate-begin warning yet
C11_Witness ==
    \E c \in Calls :
        /\ pc[c] = "validated"
        /\ Has(content[c], DocumentClass)
        /\ Has(content[c], BeginDocument) /\ ~Twice(content[c], BeginDocument)
        /\ ~Has(content[c], EndDocument)
        /\ Len(Get(validation[c]).missing_elements) = 1
        /\ \A i \in 1..Len(Get(validation[c]).warnings) :
                Get(validation[c]).warnings[i] # "Multiple document beginnings detected"

\* line i of the text is a recognized heading
IsHeading(lines, i) == SectionFound(strip(lines[i])) # ""

\* the index of the first heading line, Len(lines) + 1 if there is none
FirstHeading(lines) ==
    LET heads == { i \in 1..Len(lines) : IsHeading(lines, i) } IN
    IF heads = {} THEN Len(lines) + 1
    ELSE CHOOSE i \in heads : \A j \in heads : i <= j

\* the section line i is scanned under: the kind of the nearest heading
\* before it, header if there is none
KindAt(lines, i) ==
    LET heads == { j \in 1..(i - 1) : IsHeading(lines, j) } IN
    IF heads = {} THEN "header"
    ELSE SectionFound(strip(lines[CHOOSE j \in heads : \A m \in heads : m <= j]))

\* the lines of a text that hold more than whitespace, trimmed, in order
Inked(text) ==
    LET trimmed == [i \in 1..Len(text) |-> strip(text[i])]
    IN  SelectSeq(trimmed, LAMBDA line : line # <<>>)

\* the inked non-heading lines scanned under kind k, trimmed, in scan order
ScannedUnder(lines, k) ==
    Inked(Select(lines, [i \in 1..Len(lines) |->
                            ~IsHeading(lines, i) /\ KindAt(lines, i) = k]))

SectionKinds == { "header" } \cup { section_patterns[i].name : i \in 1..Len(section_patterns) }

\* C12 as stated: whatever the text, the map has a header key, holding the
\* trimmed content that precedes the first recognized heading.
C12_HeaderAlways ==
    IsSome(output) =>
        /\ DictHas(Get(output), "header")
        /\ DictGet(Get(output), "header")
                = strip_text(SubSeq(input, 1, FirstHeading(input) - 1))

\* C12 as the parser has it: the map has a header key exactly when the first
\* line of the text is not a recognized heading, and the key then holds the
\* trimmed content that precedes the first recognized heading (the empty
\* string when those lines are all blank).
C12_HeaderIffFirstLineIsNoHeading ==
    IsSome(output) =>
        /\ DictHas(Get(output), "header") <=> FirstHeading(input) > 1
        /\ FirstHeading(input) > 1 =>
                DictGet(Get(output), "header")
                    = strip_text(SubSeq(input, 1, FirstHeading(input) - 1))

\* a blank line, then a heading: the header key is there and holds ""
C12_Witness ==
    /\ scenario = "sections"
    /\ IsSome(output)
    /\ FirstHeading(input) = 2
    /\ DictHas(Get(output), "header")
    /\ DictGet(Get(output), "header") = EmptyText

\* C13: no content is lost: for every section kind, the inked non-heading
\* lines scanned under that kind are, in scan order, the inked lines of the
\* text the map holds for the kind (and there are none if the map has no
\* such key), also when a heading kind occurs more than once.
C13_NoContentLoss ==
    IsSome(output) =>
        \A k \in SectionKinds :
            ScannedUnder(input, k) =
                IF DictHas(Get(output), k) THEN Inked(DictGet(Get(output), k))
                ELSE <<>>

\* C16: the contact details depend on the first ten lines only: a text of
\* at least ten lines gives the same result as its first ten lines alone
\* and as its first ten lines followed by any other tail, whatever that
\* tail holds.
C16_OnlyFirstTenLines ==
    (IsSome(output) /\ scenario = "contact" /\ Len(input) >= 10) =>
        \A tail \in Tails :
            extract_contact_info(SubSeq(input, 1, 10) \o tail) = Get(output)

\* a text whose first ten lines hold no e-mail address and whose eleventh
\* line holds one: the result has none
C16_Witness ==
    /\ scenario = "contact"
    /\ IsSome(output)
    /\ Len(input) = 11
    /\ email_match(input[11]) # <<>>
    /\ Get(output).email = <<>>
    /\ Get(output).name # <<>>

\* the number of tokens of the line that equal tok
CountOf(line, tok) == Cardinality({ i \in 1..Len(line) : line[i] = tok })

\* the comma-separated tokens of a line, trimmed, without the empty ones
CommaTokens(line) ==
    LET parts == SplitOn(line, ",")
    IN  SelectSeq([i \in 1..Len(parts) |-> strip(parts[i])],
                  LAMBDA part : part # <<>>)

\* C17: when the skills text has a single inked line and that line holds a
\* comma and no colon, the result is the line's comma-separated tokens,
\* trimmed, in their order, each wrapped in \textbf{...}, joined by ", ":
\* as many emphasized tokens as there are non-empty ones, none of them
\* empty, no separator at either end, and three of them for
\* "Python, JavaScript, SQL".  For every other skills text the result is the
\* inked lines, trimmed, joined by " $\bullet$ ", with nothing emphasized.
C17_SkillsRule ==
    (IsSome(output) /\ scenario = "skills") =>
        LET lines == Inked(input)
            out == Get(output)[1]
        IN
        /\ Len(Get(output)) = 1
        /\ IF Len(lines) = 1 /\ Has(lines[1], ",") /\ ~Has(lines[1], ":")
           THEN LET toks == CommaTokens(lines[1]) IN
                /\ out = JoinTokens(<<",", " ">>,
                            [i \in 1..Len(toks) |-> <<"\\textbf{">> \o toks[i] \o <<"}">>])
                /\ CountOf(out, "\\textbf{") = Len(toks)
                /\ \A i \in 1..(Len(out) - 1) :
                        ~(out[i] = "\\textbf{" /\ out[i + 1] = "}")
                /\ out # <<>> => out[1] = "\\textbf{" /\ out[Len(out)] = "}"
                /\ lines[1] = <<"Python", ",", " ", "JavaScript", ",", " ", "SQL">> =>
                        out = <<"\\textbf{", "Python", "}", ",", " ",
                                "\\textbf{", "JavaScript", "}", ",", " ",
                                "\\textbf{", "SQL", "}">>
           ELSE /\ out = JoinTokens(<<" ", "$\\bullet$", " ">>, lines)
                /\ ~Has(out, "\\textbf{")

\* a single line with empty tokens between its commas, between blank lines:
\* two emphasized tokens come out
C17_Witness ==
    /\ scenario = "skills"
    /\ IsSome(output)
    /\ Len(input) >= 2
    /\ Inked(input) = << <<"Python", ",", ",", " ", "SQL", ",">> >>
    /\ Get(output) = << <<"\\textbf{", "Python", "}", ",", " ", "\\textbf{", "SQL", "}">> >>

\* the titles of the section headings of a document, in order
Headings(doc) ==
    LET heads == SelectSeq(doc, LAMBDA line : StartsWith(line, "\\section{"))
    IN  [i \in 1..Len(heads) |-> SubSeq(heads[i], 2, Len(heads[i]) - 1)]

\* the keys among `kinds` (a sequence) under which the map holds inked text
InkedKinds(sections, kinds) ==
    SelectSeq(kinds, LAMBDA k : DictHas(sections, k)
                                /\ Inked(DictGet(sections, k)) # <<>>)

CanonicalKinds ==
    << "summary", "experience", "skills", "projects", "education",
       "certifications", "achievements", "publications" >>

\* the keys of the map that are neither canonical nor header, in map order
CustomKinds(sections) ==
    SelectSeq(DictKeys(sections),
              LAMBDA k : k # "header" /\ \A i \in 1..8 : CanonicalKinds[i] # k)

\* the headings a document is to have for a section map
HeadingsFor(sections) ==
    LET kinds == InkedKinds(sections, CanonicalKinds)
                 \o InkedKinds(sections, CustomKinds(sections))
    IN  [i \in 1..Len(kinds) |-> Titleize(kinds[i])]

\* the parsed sections with sections of kinds of their own put around them:
\* none, an inked one in front and one behind, a blank one in front
WithCustomKinds(sections) ==
    { sections,
      << [key |-> "volunteer_work", value |-> << <<"Python">> >>] >> \o sections
         \o << [key |-> "awards", value |-> << <<"-", " ", "SQL">> >>] >>,
      << [key |-> "awards", value |-> << <<" ">>, <<>> >>] >> \o sections }

\* C14: the document format_resume returns has one section heading for each
\* section of the map that is inked and is not header; the headings of the
\* canonical kinds stand in the order summary, experience, skills, projects,
\* education, certifications, achievements, publications whatever their
\* order in the text; the header bucket gets no heading; the last line is
\* \end{document}.  The same holds of the document assembled from the same
\* map with sections of other kinds added: their headings, titleized, come
\* after all the canonical ones.
C14_SectionsInCanonicalOrder ==
    ( /\ IsSome(output) /\ scenario = "resume"
      /\ Get(output).call = "format_resume"
      /\ Get(output).result.raised = "none" ) =>
        LET doc == Get(output).result.value
            sections == parse_resume_sections(input.text)
            header == generate_latex_header(extract_contact_info(input.text),
                                            input.style).value
        IN
        /\ Headings(doc) = HeadingsFor(sections)
        /\ \A i \in 1..Len(Headings(doc)) : Headings(doc)[i] # <<"Header">>
        /\ doc[Len(doc)] = <<"\\end{document}">>
        /\ \A more \in WithCustomKinds(sections) :
                LET doc2 == assemble(header, more) IN
                /\ Headings(doc2) = HeadingsFor(more)
                /\ Len(Headings(doc2)) = Len(InkedKinds(more, CanonicalKinds))
                        + Len(InkedKinds(more, CustomKinds(more)))
                /\ doc2[Len(doc2)] = <<"\\end{document}">>

\* a text with skills first and a summary after them: the summary heading
\* comes out before the skills heading, and there is no third heading
C14_Witness ==
    /\ scenario = "resume"
    /\ IsSome(output)
    /\ Get(output).call = "format_resume"
    /\ Get(output).result.raised = "none"
    /\ DictKeys(parse_resume_sections(input.text)) = <<"skills", "summary">>
    /\ Headings(Get(output).result.value) = << <<"Summary">>, <<"Skills">> >>

\* C15: for every style of the enumeration both registries hold a template,
\* and format_resume and style_document return a complete document: the
\* class declaration first, a \begin{document} line, \end{document} last.
C15_EveryStyleHasTemplate ==
    (IsSome(output) /\ scenario = "resume") =>
        /\ DictHas(LATEX_TEMPLATES, input.style)
        /\ DictHas(DocumentStyler_LATEX_TEMPLATES, input.style)
        /\ Get(output).result.raised = "none"
        /\ LET doc == Get(output).result.value IN
            /\ \E i \in 1..Len(doc) : doc[i] = <<"\\begin{document}">>
            /\ doc[Len(doc)] = <<"\\end{document}">>
            /\ doc[1] \in { <<"\\documentclass[11pt,a4paper]{article}">>,
                            <<"\\documentclass[10pt,a4paper]{article}">> }

\* C18: once compile_latex has returned its result to compile_latex_simple,
\* compile_latex_simple raises ValueError exactly when that result is the
\* failure of the structural validation, raises RuntimeError for every
\* other failure result whatever the compiler wrote on standard error, and
\* otherwise returns the source encoding with a non-null artifact encoding,
\* which it does only for a success.
C18_ValueErrorOnlyForValidation ==
    \A c \in Calls :
        (scenario = "simple" /\ IsSome(simple[c]) /\ IsSome(result[c])) =>
            LET res == Get(result[c])
                invalid == /\ IsSome(validation[c])
                           /\ ~Get(validation[c]).is_valid
            IN
            /\ Get(simple[c]).raised = "ValueError" <=> invalid
            /\ (~res.success /\ ~invalid) => Get(simple[c]).raised = "RuntimeError"
            /\ Get(simple[c]).raised = "none" <=> res.success
            /\ Get(simple[c]).raised = "none" =>
                    /\ Get(simple[c]).value = << res.tex_base64, res.pdf_base64 >>
                    /\ IsSome(res.pdf_base64)


\* the names list_providers reports
ListedNames(data) ==
    { list_providers(data)[i].key : i \in 1..Len(list_providers(data)) }

\* the providers named in `names` are listed with the same settings in both
SameSettings(names, before, after) ==
    \A k \in names :
        DictGet(list_providers(after), k) = DictGet(list_providers(before), k)

\* C19: after a set_provider(p, ...) call p is the active provider and every
\* provider listed before is still listed, with p listed too; after a
\* remove_provider(q) call the listed providers are those listed before
\* without q, the active provider is the one before when q was not active,
\* and there is no active provider when q was active.
C19_SetAndRemoveContract ==
    (scenario = "config" /\ IsSome(last_call)) =>
        LET call == Get(last_call)
            before == call.before
            p == call.provider
        IN
        /\ call.op = "set_provider" =>
              /\ get_active_provider(config_data) = PyStr(p)
              /\ ListedNames(config_data) = ListedNames(before) \cup { p }
              /\ SameSettings(ListedNames(before) \ { p }, before, config_data)
        /\ call.op = "remove_provider" =>
              /\ ListedNames(config_data) = ListedNames(before) \ { p }
              /\ SameSettings(ListedNames(before) \ { p }, before, config_data)
              /\ get_active_provider(before) # PyStr(p) =>
                    get_active_provider(config_data) = get_active_provider(before)
              /\ get_active_provider(before) = PyStr(p) =>
                    get_active_provider(config_data) = PyNone

\* C20: is_configured() is true exactly when list_providers() is not empty.
C20_ConfiguredIffListed ==
    scenario = "config" =>
        (is_configured(config_data) <=> list_providers(config_data) # << >>)


\* what callers can read from a Config whose _config_data is `data`
Reported(data) ==
    [active |-> get_active_provider(data),
     providers |-> list_providers(data),
     configured |-> is_configured(data),
     api_key |-> [q \in RemoveNames \cup { "" } |-> get_api_key(data, PyStr(q))],
     model |-> [q \in RemoveNames \cup { "" } |-> get_model(data, PyStr(q))],
     endpoint |-> [q \in RemoveNames \cup { "" } |-> get_endpoint(data, PyStr(q))]]

\* the configuration file holds the in-memory state: it is the document
\* json.dump writes for it, or there is no file and nothing is configured
FileHolds(file, data) ==
    IF file = None THEN data = << >> ELSE file = Some(json_dump(PyDict(data)))

\* C21: after any sequence of set_provider and remove_provider calls the
\* configuration file holds the in-memory state, and a Config created on the
\* same directory is created without an error and reports the same active
\* provider, provider list, API key, model and endpoint (for the active
\* provider and for each name) as the first instance.
C21_NewInstanceReportsTheSame ==
    scenario = "persist" =>
        /\ FileHolds(config_file, config_data)
        /\ IsSome(output) =>
              /\ Get(output).raised = "none"
              /\ Reported(Get(output).value.items) = Reported(config_data)

\* what is left of C21 in the runs in which no call has raised ConfigError
C21_HoldsWhileEverySaveSucceeds ==
    (scenario = "persist" /\ ~CallsFailed) =>
        /\ FileHolds(config_file, config_data)
        /\ IsSome(output) => Get(output) = Return(PyDict(config_data))


\* C22: the name _secure_filename produces is not empty, holds only letters,
\* digits, ".", "_" and "-", and does not begin with "." or "_"; the name
\* validate_file_upload returns is that name; an empty filename and a
\* filename without a "." are rejected with ValidationError and the stream
\* is not touched.
C22_SecureNameAndEarlyRejection ==
    (scenario = "upload" /\ IsSome(output)) =>
        LET secure_name == Get(output).secure_filename
            upload == Get(output).upload
        IN
        /\ secure_name # << >>
        /\ \A i \in 1..Len(secure_name) : secure_name[i] \in SafeChars
        /\ secure_name[1] \notin { ".", "_" }
        /\ upload.raised = "none" => upload.value = secure_name
        /\ (input = << >> \/ \A i \in 1..Len(input) : input[i] # ".") =>
              /\ upload.raised = "ValidationError"
              /\ ~upload.stream_read

\* a name without an extension, with a leading underscore and a path
\* separator, is cleaned and rejected without a look at the stream
C22_Witness ==
    /\ scenario = "upload"
    /\ IsSome(output)
    /\ input = << "_", "/", "t", "-", "1" >>
    /\ Get(output).secure_filename = << "t", "-", "1" >>
    /\ Get(output).upload.raised = "ValidationError"
    /\ Get(output).upload.message = "No file extension"
    /\ ~Get(output).upload.stream_read


\* the call is past the validation: it was not refused by the validator
PastValidation(c) ==
    ~(validate_structure[c] /\ IsSome(validation[c]) /\ ~Get(validation[c]).is_valid)

\* the number of log reads the call has completed: one after each compiler
\* pass that returned, but for a read that raised
LogReads(c) ==
    Cardinality({ j \in 1..Len(passes[c]) : passes[c][j].kind = "exit" })
        - (IF raised_at[c] = "read_log" THEN 1 ELSE 0)

\* C23: the log_output of a result that got past validation is the log file
\* as it read after the latest compiler pass that returned and whose log was
\* read: the log written by the latest pass up to that one which wrote a
\* log, whatever a later pass that timed out did to the file, and the empty
\* text when no pass returned or no pass up to that one wrote a log.
C23_LogOfLatestReturnedPass ==
    \A c \in Calls :
        (HasResult(c) /\ PastValidation(c)) =>
            Get(result[c]).log_output =
                IF LogReads(c) = 0
                THEN <<>>
                ELSE LogAfter(content[c], passes[c], LogReads(c))

\* pass 1 wrote a log and returned zero, pass 2 wrote its own log and was
\* cut off: the result carries the log of pass 1
C23_Witness ==
    \E c \in Calls :
        /\ Returned(c) /\ PastValidation(c)
        /\ Len(passes[c]) = 2
        /\ passes[c][1].log /\ passes[c][2].log
        /\ passes[c][2].kind = "timeout"
        /\ content[c] # <<>>
        /\ Get(result[c]).log_output = DecodeIgnore(LogOf(Utf8(content[c]), 1))


\* C24 (as claimed): when some environment is opened more often than it is
\* closed, the warnings of validate_latex_structure hold "Unmatched
\* begin/end environment pairs".
C24_WarnsOnSurplusOpening ==
    \A c \in Calls :
        (scenario = "validator" /\ IsSome(validation[c])) =>
            ((\E env \in Environments :
                CountOf(content[c], BeginOf(env)) > CountOf(content[c], EndOf(env)))
             => \E i \in 1..Len(Get(validation[c]).warnings) :
                    Get(validation[c]).warnings[i] =
                        "Unmatched begin/end environment pairs")


\* C25: when the first line of the text is a recognized heading the map has
\* no header key; when a heading comes after one or more lines that are all
\* blank or whitespace, the map has a header key holding the empty string;
\* and every key of the map is header or a section name under which at
\* least one line that is no heading was scanned.
C25_KeyOnlyWhenLinesAccumulated ==
    (scenario = "sections" /\ IsSome(output)) =>
        LET first == FirstHeading(input)
            keys == { DictKeys(Get(output))[i] : i \in 1..Len(Get(output)) }
        IN
        /\ first = 1 => ~DictHas(Get(output), "header")
        /\ (first \in 2..Len(input)
                /\ \A i \in 1..(first - 1) : strip(input[i]) = <<>>) =>
              /\ DictHas(Get(output), "header")
              /\ DictGet(Get(output), "header") = EmptyText
        /\ \A k \in keys :
              /\ k \in SectionKinds
              /\ \E i \in 1..Len(input) :
                    ~IsHeading(input, i) /\ KindAt(input, i) = k

\* a whitespace-only line, a heading and a line under it: an empty header
\* and the section; and the same text without its first line has no header
C25_Witness ==
    /\ scenario = "sections"
    /\ IsSome(output)
    /\ input = << <<" ">>, <<"Skills">>, <<"Python">> >>
    /\ DictKeys(Get(output)) = << "header", "skills" >>
    /\ DictGet(Get(output), "header") = EmptyText
    /\ DictKeys(parse_resume_sections(Tail(input))) = << "skills" >>


\* the scanned lines of a text, trimmed
Scanned(resume_text) ==
    [i \in 1..Len(FirstLines(resume_text)) |-> strip(FirstLines(resume_text)[i])]

\* the least element of a non-empty set of numbers
Least(S) == CHOOSE i \in S : \A j \in S : i <= j

\* C26: each of email, phone, linkedin and github holds the match of the
\* first scanned line that matches the rule of the field, and is empty when
\* no scanned line matches; so a later line never changes a field, and one
\* line can fill more than one field.
C26_FirstMatchWinsPerField ==
    (scenario = "contact" /\ IsSome(output)) =>
        LET lines == Scanned(input)
            emails == { i \in 1..Len(lines) : email_match(lines[i]) # <<>> }
            phones == { i \in 1..Len(lines) : phone_match(lines[i]) # <<>> }
            linkedins == { i \in 1..Len(lines) : linkedin_match(lines[i]) # <<>> }
            githubs == { i \in 1..Len(lines) : github_match(lines[i]) # <<>> }
        IN
        /\ Get(output).email =
              IF emails = {} THEN <<>> ELSE email_match(lines[Least(emails)])
        /\ Get(output).phone =
              IF phones = {} THEN <<>> ELSE phone_match(lines[Least(phones)])
        /\ Get(output).linkedin =
              IF linkedins = {} THEN <<>> ELSE linkedin_match(lines[Least(linkedins)])
        /\ Get(output).github =
              IF githubs = {} THEN <<>> ELSE github_match(lines[Least(githubs)])

\* one line fills the e-mail address and the phone number, and the address
\* on the next line is ignored
C26_Witness ==
    /\ scenario = "contact"
    /\ IsSome(output)
    /\ Len(input) >= 2
    /\ input[1] = <<"jane@x.org", " ", "555-123-4567">>
    /\ input[2] = <<"bob@y.com">>
    /\ Get(output).email = <<"jane@x.org">>
    /\ Get(output).phone # <<>>

\* the line may be a name: it is not empty, holds none of "@", "phone",
\* "email", "linkedin", "github" and has at most 4 words
Qualifies(line) ==
    /\ line # <<>>
    /\ ~HasContactWord(line)
    /\ SplitCount(line) <= 4

\* C27 as stated: the name is the first non-empty scanned line when that
\* line qualifies, and is empty otherwise, whatever the later lines are.
C27_NameOnlyFromFirstNonEmptyLine ==
    (scenario = "contact" /\ IsSome(output)) =>
        LET lines == Scanned(input)
            inked == { i \in 1..Len(lines) : lines[i] # <<>> }
        IN
        Get(output).name =
            IF inked # {} /\ Qualifies(lines[Least(inked)])
            THEN lines[Least(inked)]
            ELSE <<>>

\* C27 as the extractor has it: the name is the first scanned line that
\* qualifies, wherever it stands among the scanned lines, and is empty when
\* no scanned line qualifies.
C27_NameIsFirstQualifyingLine ==
    (scenario = "contact" /\ IsSome(output)) =>
        LET lines == Scanned(input)
            names == { i \in 1..Len(lines) : Qualifies(lines[i]) }
        IN
        Get(output).name = IF names = {} THEN <<>> ELSE lines[Least(names)]

\* the first non-empty line holds an e-mail address and the line after it
\* becomes the name
C27_Witness ==
    /\ scenario = "contact"
    /\ IsSome(output)
    /\ Len(input) >= 2
    /\ input[1] = <<"bob@y.com">>
    /\ input[2] = <<" ", "Bob", " ">>
    /\ Get(output).name = <<"Bob">>


\* the markers of a list in the formatted text
ListOpen == << "\\begin{itemize}[leftmargin=1em]" >>
ListClose == << "\\end{itemize}" >>
IsItem(line) == StartsWith(line, "\\item")

\* the lines of a formatted text (none for the empty text)
OutLines(text) == IF text = EmptyText THEN << >> ELSE text

\* the number of lists open after the first i lines of the formatted text
Depth(lines, i) ==
    Cardinality({ j \in 1..i : lines[j] = ListOpen })
        - Cardinality({ j \in 1..i : lines[j] = ListClose })

\* the line of a section text is a bullet line of the generic rule
IsBullet(line) == StartsWith(strip(line), BulletGlyph) \/ StartsWith(strip(line), "-")

\* C28: in the output of the generic rule the list markers alternate,
\* starting with an open and ending with a close; there is one list for
\* each run of consecutive bullet lines of the section text; the items are
\* the bullet lines in order, each inside an open list; and the other lines
\* are the trimmed non-blank non-bullet lines in order, each outside a list.
C28_GenericListsWellFormed ==
    (scenario = "rules" /\ IsSome(output) /\ Get(output).rule = "generic") =>
        LET out == OutLines(Get(output).text)
            runs == { i \in 1..Len(input) :
                        IsBullet(input[i]) /\ (i = 1 \/ ~IsBullet(input[i - 1])) }
            bullets == SelectSeq(input, IsBullet)
            plain == SelectSeq(input, LAMBDA l : ~IsBullet(l) /\ strip(l) # << >>)
            items == SelectSeq(out, IsItem)
            others == SelectSeq(out, LAMBDA l : ~IsItem(l) /\ l \notin { ListOpen, ListClose })
        IN
        /\ \A i \in 1..Len(out) : Depth(out, i) \in { 0, 1 }
        /\ Depth(out, Len(out)) = 0
        /\ Cardinality({ i \in 1..Len(out) : out[i] = ListOpen }) = Cardinality(runs)
        /\ items = [i \in 1..Len(bullets) |-> ItemOf(strip(bullets[i]))]
        /\ others = [i \in 1..Len(plain) |-> strip(plain[i])]
        /\ \A i \in 1..Len(out) :
              /\ IsItem(out[i]) => Depth(out, i) = 1
              /\ (~IsItem(out[i]) /\ out[i] \notin { ListOpen, ListClose }) =>
                    Depth(out, i) = 0

\* two runs of bullet lines parted by an empty line: two lists
C28_Witness ==
    /\ scenario = "rules"
    /\ IsSome(output)
    /\ Get(output).rule = "generic"
    /\ input = << << "-", " ", "Python" >>, << >>, << BulletGlyph, " ", "Built" >>,
                  << "Python" >> >>
    /\ Get(output).text =
          << ListOpen, << "\\item", " ", "Python" >>, ListClose,
             ListOpen, << "\\item", " ", "Built" >>, ListClose, << "Python" >> >>

\* C29 (as claimed): in the output of the experience rule the list markers
\* alternate, starting with an open and ending with a close, no job header
\* stands inside a list, and every list item stands inside a list.
C29_ExperienceItemsInsideLists ==
    (scenario = "rules" /\ IsSome(output) /\ Get(output).rule = "experience") =>
        LET out == OutLines(Get(output).text) IN
        /\ \A i \in 1..Len(out) : Depth(out, i) \in { 0, 1 }
        /\ Depth(out, Len(out)) = 0
        /\ \A i \in 1..Len(out) :
              /\ StartsWith(out[i], "\\textbf{") => Depth(out, i) = 0
              /\ IsItem(out[i]) => Depth(out, i) = 1


\* C30: in every result of compile_latex, success is true exactly when the
\* PDF encoding is not null and exactly when error_message is null; and a
\* successful result comes from two compiler passes that both returned zero,
\* with document.pdf in the directory after the second pass (written by one
\* of the two), the encoding being that of the file.
C30_SuccessIffArtifactIffNoError ==
    \A c \in Calls :
        HasResult(c) =>
            LET r == Get(result[c])
                d == temp_dir[c]
            IN
            /\ r.success <=> IsSome(r.pdf_base64)
            /\ r.success <=> (r.error_message = None)
            /\ r.success =>
                  /\ Len(passes[c]) = 2
                  /\ PassZero(c, 1) /\ PassZero(c, 2)
                  /\ \E j \in 1..2 : passes[c][j].pdf
                  /\ pc[c] = "exit_with" =>
                        /\ fs[d].exists /\ IsSome(fs[d].pdf)
                        /\ r.pdf_base64 = Some(b64encode(Get(fs[d].pdf)))

\* a success whose PDF was written by the first pass only
C30_Witness ==
    \E c \in Calls :
        /\ pc[c] = "exit_with"
        /\ IsSome(result[c])
        /\ Get(result[c]).success
        /\ passes[c][1].pdf /\ ~passes[c][2].pdf
        /\ IsSome(fs[temp_dir[c]].pdf)

====
